---------------------------- MODULE Spec2Model ----------------------------
(***************************************************************************)
(* Year-by-year retirement projection of src/app.py (the loop at lines     *)
(* 971-1568 and the initialisation at lines 837-898).                      *)
(*                                                                         *)
(* Number representation.  The program computes in binary floating point.  *)
(* Here every amount of money is an integer number of mills (1/1000 of a   *)
(* dollar), every configured rate is a pair <<n, d>> standing for n/d, and *)
(* every computed dimensionless ratio (a tax rate on a withdrawal, a       *)
(* withdrawal fraction, a compounding multiplier) is an integer scaled by  *)
(* RS.  Each multiplication or division rounds down to the unit, which     *)
(* plays the part of the rounding of a floating-point operation.           *)
(***************************************************************************)
EXTENDS Integers, Sequences, FiniteSets, TLC

\* cfg:  the sidebar inputs            i:    the loop index
\* st:   the variables of the script    rows: the series appended so far
\* mid:  the variables of the script as they stood at points inside the
\*       last iteration (at its start, and after the steps named)
\* imp:  import_data at work: the parsed rows, the row reached, the
\*       session state, the counters and the value returned
\* twin: the inputs and the series of the run before the rerun that a
\*       changed input starts
VARIABLES cfg, i, st, rows, mid, imp, twin

vars == <<cfg, i, st, rows, mid, imp, twin>>

--------------------------------------------------------------------------
(* Arithmetic *)

\* the largest integer of 32-bit signed arithmetic
MaxInt == (2^30 - 1) + 2^30

\* scale of a computed dimensionless ratio
RS == 5 * 10^8

\* d dollars, in mills
USD(d) == d * 1000

\* the depletion threshold 0.01 of the projection loop, in mills
EPS == 10

Max(a, b) == IF a >= b THEN a ELSE b

Min(a, b) == IF a <= b THEN a ELSE b

\* the element of a one-element set
Only(S) == CHOOSE v \in S : TRUE

\* one binary step of the long multiplication: from h = <<q, r>> for a * m
\* to <<q, r>> for a * (2 * m + bit)
QuoRemBit(h, bit, a, c) ==
  <<2 * h[1] + ((2 * h[2] + bit * a) \div c), (2 * h[2] + bit * a) % c>>

\* five binary steps, for the digits of d < 32 from the top
QuoRemBits(h, d, a, c) ==
  Only({ QuoRemBit(h4, d % 2, a, c) :
         h4 \in { QuoRemBit(h3, (d \div 2) % 2, a, c) :
         h3 \in { QuoRemBit(h2, (d \div 4) % 2, a, c) :
         h2 \in { QuoRemBit(h1, (d \div 8) % 2, a, c) :
         h1 \in { QuoRemBit(h, d \div 16, a, c) } } } } })

\* <<q, r>> with a * b = q * c + r and 0 <= r < c, for 0 <= a < c and
\* 0 <= b <= MaxInt: the binary digits of b from the top, five at a time
QuoRem(a, b, c) ==
  Only({ QuoRemBits(h6, b % 32, a, c) :
         h6 \in { QuoRemBits(h5, (b \div 32) % 32, a, c) :
         h5 \in { QuoRemBits(h4, (b \div 1024) % 32, a, c) :
         h4 \in { QuoRemBits(h3, (b \div 32768) % 32, a, c) :
         h3 \in { QuoRemBits(h2, (b \div 1048576) % 32, a, c) :
         h2 \in { QuoRemBits(h1, (b \div 33554432) % 32, a, c) :
         h1 \in { QuoRemBit(<<0, 0>>, b \div 1073741824, a, c) } } } } } } })

\* floor(a * b / c) for a, b >= 0 and c > 0, without overflowing
MulDiv(a, b, c) ==
  Only({ IF x = 0 \/ y = 0 THEN 0
         ELSE IF x <= MaxInt \div y THEN (x * y) \div z
         ELSE (x \div z) * y + QuoRem(x % z, y, z)[1] :
         x \in {a}, y \in {b}, z \in {c} })

\* x * rate
Times(x, r) == MulDiv(x, r[1], r[2])

\* x * (1 + rate)
Grow(x, r) == MulDiv(x, r[2] + r[1], r[2])

\* x * (1 - rate)
Shrink(x, r) == MulDiv(x, r[2] - r[1], r[2])

\* h squared, times (1 + rate) when the binary digit is 1, scaled by RS
PowStep(h, bit, r) ==
  Only({ IF bit = 1 THEN Grow(sq, r) ELSE sq : sq \in {MulDiv(h, h, RS)} })

\* (1 + rate) ** n, scaled by RS, by squaring over the binary digits of n
\* from the top, for 0 <= n < 512 (a term is at most 30 years of 12 months)
PowRS(r, n) ==
  Only({ PowStep(h8, n % 2, r) :
         h8 \in { PowStep(h7, (n \div 2) % 2, r) :
         h7 \in { PowStep(h6, (n \div 4) % 2, r) :
         h6 \in { PowStep(h5, (n \div 8) % 2, r) :
         h5 \in { PowStep(h4, (n \div 16) % 2, r) :
         h4 \in { PowStep(h3, (n \div 32) % 2, r) :
         h3 \in { PowStep(h2, (n \div 64) % 2, r) :
         h2 \in { PowStep(h1, (n \div 128) % 2, r) :
         h1 \in { PowStep(RS, (n \div 256) % 2, r) } } } } } } } } })

--------------------------------------------------------------------------
(* Mortgage calculation functions *)

\* calculate_monthly_payment(principal, annual_rate, years)
calculate_monthly_payment(principal, annual_rate, years) ==
  IF principal <= 0 \/ years <= 0 THEN 0
  ELSE LET monthly_rate == <<annual_rate[1], annual_rate[2] * 12>>
           num_months == years * 12
       IN  IF monthly_rate[1] = 0 THEN principal \div num_months
           ELSE Only({ MulDiv(principal, pt[2], pt[1] - RS) :
                       pt \in { <<pw, Times(pw, monthly_rate)>> :
                                pw \in {PowRS(monthly_rate, num_months)} } })

\* the payment formula applied whatever the rate: its divisor is
\* (1 + r) ** n - 1
PaymentDivisors_FormulaOnly(principal, annual_rate, years) ==
  IF principal <= 0 \/ years <= 0 THEN {}
  ELSE {PowRS(<<annual_rate[1], annual_rate[2] * 12>>, years * 12) - RS}

\* the divisors of calculate_monthly_payment (lines 29-39): none after the
\* early return, num_months for a zero rate, (1 + r) ** n - 1 otherwise
PaymentDivisors(principal, annual_rate, years) ==
  IF principal <= 0 \/ years <= 0 THEN {}
  ELSE IF annual_rate[1] = 0 THEN {years * 12}
       ELSE {PowRS(<<annual_rate[1], annual_rate[2] * 12>>, years * 12) - RS}

\* one pass of the month loop of calculate_annual_mortgage_amortization,
\* for the month numbered `month` of n: acc = <<total_interest,
\* total_principal, balance>>; the loop has ended when month > n, and
\* breaks when the balance is <= 0
AmortizeMonth(acc, monthly_payment, monthly_rate, month, n) ==
  IF month > n \/ acc[3] <= 0 THEN acc
  ELSE Only({ <<acc[1] + interest_payment,
                acc[2] + Min(monthly_payment - interest_payment, acc[3]),
                acc[3] - Min(monthly_payment - interest_payment, acc[3])>> :
              interest_payment \in {Times(acc[3], monthly_rate)} })

\* the month loop of calculate_annual_mortgage_amortization, n <= 12
\* months to run this year
AmortizeMonths(acc, monthly_payment, monthly_rate, n) ==
  Only({ AmortizeMonth(a11, monthly_payment, monthly_rate, 12, n) :
         a11 \in { AmortizeMonth(a10, monthly_payment, monthly_rate, 11, n) :
         a10 \in { AmortizeMonth(a9, monthly_payment, monthly_rate, 10, n) :
         a9 \in { AmortizeMonth(a8, monthly_payment, monthly_rate, 9, n) :
         a8 \in { AmortizeMonth(a7, monthly_payment, monthly_rate, 8, n) :
         a7 \in { AmortizeMonth(a6, monthly_payment, monthly_rate, 7, n) :
         a6 \in { AmortizeMonth(a5, monthly_payment, monthly_rate, 6, n) :
         a5 \in { AmortizeMonth(a4, monthly_payment, monthly_rate, 5, n) :
         a4 \in { AmortizeMonth(a3, monthly_payment, monthly_rate, 4, n) :
         a3 \in { AmortizeMonth(a2, monthly_payment, monthly_rate, 3, n) :
         a2 \in { AmortizeMonth(a1, monthly_payment, monthly_rate, 2, n) :
         a1 \in { AmortizeMonth(acc, monthly_payment, monthly_rate, 1, n)
                } } } } } } } } } } } })

\* calculate_annual_mortgage_amortization: <<total_interest,
\* total_principal, new_balance>>
calculate_annual_mortgage_amortization(principal, monthly_payment, monthly_rate, months_remaining) ==
  IF principal <= 0 \/ months_remaining <= 0 THEN <<0, 0, 0>>
  ELSE Only({ <<r[1], r[2], Max(0, r[3])>> :
              r \in {AmortizeMonths(<<0, 0, principal>>, monthly_payment,
                                    monthly_rate, Min(12, months_remaining))} })

--------------------------------------------------------------------------
(* Projection: initialisation (lines 837-898) *)

Zero == <<0, 1>>

\* ages with the end of the range left out: np.arange(start_age, end_age)
ages_EndExcluded(c) == [k \in 1..(c.end_age - c.start_age) |-> c.start_age + k - 1]

\* ages = np.arange(start_age, end_age + 1)
ages(c) == [k \in 1..(c.end_age - c.start_age + 1) |-> c.start_age + k - 1]

\* loan_amount = purchase_price - purchase_price * percent_down
loan_amount(c) == c.purchase_price - Times(c.purchase_price, c.percent_down)

\* the three "remaining months" initialisations
InitRemainingMonths(term) == IF term > 0 THEN term * 12 ELSE 0

\* the three "monthly payment" initialisations: <<payment, monthly rate>>
InitMonthlyPayment(balance, rate, term) ==
  IF balance > 0 /\ term > 0
  THEN <<calculate_monthly_payment(balance, rate, term), <<rate[1], rate[2] * 12>>>>
  ELSE <<0, Zero>>

\* the variables of the script before the first iteration of the loop; the
\* variables that the loop body assigns before reading start at 0
InitState(c) ==
  LET m1 == InitMonthlyPayment(c.mortgage_balance, c.mortgage_rate, c.mortgage_term)
      m2 == InitMonthlyPayment(c.home2_mortgage_balance, c.home2_mortgage_rate,
                               c.home2_mortgage_term)
      m3 == InitMonthlyPayment(loan_amount(c), c.purchase_rate, c.purchase_term)
  IN [ money_market |-> c.cash_start,
       money_market_cost_basis |-> c.cash_start,
       money_market_tax_deferred |-> 0,
       money_market_prev_value |-> c.cash_start,
       brokerage |-> 0,
       brokerage_cost_basis |-> 0,
       brokerage_tax_deferred |-> 0,
       brokerage_prev_value |-> 0,
       ira |-> c.ira_start,
       home_value |-> c.home_value_now,
       mortgage_balance_current |-> c.mortgage_balance,
       mortgage_remaining_months |-> InitRemainingMonths(c.mortgage_term),
       monthly_mortgage_payment |-> m1[1],
       monthly_mortgage_rate |-> m1[2],
       home2_value |-> c.home2_value_now,
       home2_mortgage_balance_current |-> c.home2_mortgage_balance,
       home2_mortgage_remaining_months |-> InitRemainingMonths(c.home2_mortgage_term),
       home2_monthly_mortgage_payment |-> m2[1],
       home2_monthly_mortgage_rate |-> m2[2],
       purchase_home_value |-> c.purchase_price,
       purchase_mortgage_balance_current |-> loan_amount(c),
       purchase_mortgage_remaining_months |-> InitRemainingMonths(c.purchase_term),
       purchase_monthly_mortgage_payment |-> m3[1],
       purchase_monthly_mortgage_rate |-> m3[2],
       home_property_tax_current |-> c.home_property_tax,
       home_insurance_current |-> c.home_insurance,
       home2_property_tax_current |-> c.home2_property_tax,
       home2_insurance_current |-> c.home2_insurance,
       purchase_property_tax_current |-> c.purchase_property_tax,
       purchase_insurance_current |-> c.purchase_insurance,
       debt_balance |-> 0,
       \* assigned in the loop body
       debt_interest_annual |-> 0,
       home_hoa_annual |-> 0, home2_hoa_annual |-> 0, purchase_hoa_annual |-> 0,
       base_cost |-> 0, inflation_rate |-> Zero, inflation_multiplier |-> 0,
       inflated_base_cost |-> 0, expenses |-> 0,
       mortgage_payment_annual |-> 0, mortgage_interest_annual |-> 0,
       mortgage_tax_shield |-> 0,
       home2_mortgage_payment_annual |-> 0, home2_mortgage_interest_annual |-> 0,
       home2_mortgage_tax_shield |-> 0,
       purchase_mortgage_payment_annual |-> 0, purchase_mortgage_interest_annual |-> 0,
       purchase_mortgage_tax_shield |-> 0,
       expense_type |-> "",
       money_market_growth |-> 0, brokerage_growth |-> 0, ira_growth |-> 0,
       sale_price |-> 0, sale_cost |-> 0, home_tax |-> 0, liquid_home_value |-> 0,
       home_sale_this_year |-> FALSE,
       home2_sale_price |-> 0, home2_sale_cost |-> 0, home2_tax |-> 0,
       home2_liquid_value |-> 0, home2_sale_this_year |-> FALSE,
       income_annual |-> 0, cash_flow |-> 0,
       mm_withdrawal |-> 0, mm_withdrawal_tax |-> 0,
       brokerage_withdrawal |-> 0, brokerage_withdrawal_tax |-> 0,
       ira_withdrawal |-> 0, ira_withdrawal_tax |-> 0,
       debt_taken_this_year |-> 0, deficit |-> 0,
       ira_liquid |-> 0, purchase_home_liquid_value |-> 0, total_assets |-> 0 ]

\* the divisors of the three calls of calculate_monthly_payment (lines
\* 856-857, 869-870, 882-883), each made only for a positive balance and term
InitDivisors(c) ==
  UNION { IF l[1] > 0 /\ l[3] > 0 THEN PaymentDivisors(l[1], l[2], l[3]) ELSE {} :
            l \in { <<c.mortgage_balance, c.mortgage_rate, c.mortgage_term>>,
                    <<c.home2_mortgage_balance, c.home2_mortgage_rate,
                      c.home2_mortgage_term>>,
                    <<loan_amount(c), c.purchase_rate, c.purchase_term>> } }

--------------------------------------------------------------------------
(* Projection: the body of the loop, for year index k and age a, in the    *)
(* order of the source.  Each step maps the variables of the script to     *)
(* their values after the step.                                            *)

\* the interest charged to the year but not added to the balance
DebtInterest_NotCompounded(c, s) ==
  IF s.debt_balance > 0
  THEN [s EXCEPT !.debt_interest_annual = Times(s.debt_balance, c.debt_interest_rate)]
  ELSE [s EXCEPT !.debt_interest_annual = 0]

\* lines 972-976: debt interest at the start of the year
DebtInterest(c, s) ==
  IF s.debt_balance > 0
  THEN LET di == Times(s.debt_balance, c.debt_interest_rate)
       IN  [s EXCEPT !.debt_interest_annual = di, !.debt_balance = @ + di]
  ELSE [s EXCEPT !.debt_interest_annual = 0]

\* lines 978-998: property values and carrying costs grow
GrowProperties(c, s) ==
  [s EXCEPT !.home_value = Grow(@, c.home_growth),
            !.home2_value = Grow(@, c.home2_growth),
            !.purchase_home_value = Grow(@, c.purchase_growth),
            !.home_property_tax_current = MulDiv(@, 102, 100),
            !.home_insurance_current = MulDiv(@, 103, 100),
            !.home2_property_tax_current = MulDiv(@, 102, 100),
            !.home2_insurance_current = MulDiv(@, 103, 100),
            !.purchase_property_tax_current = MulDiv(@, 102, 100),
            !.purchase_insurance_current = MulDiv(@, 103, 100),
            !.home_hoa_annual = c.home_hoa_monthly * 12,
            !.home2_hoa_annual = c.home2_hoa_monthly * 12,
            !.purchase_hoa_annual = c.purchase_hoa_monthly * 12]

\* the tier found from the durations of the tiers, ind_years among them
ExpenseTier_Cumulative(c, a) ==
  IF a < c.start_age + c.self_years THEN <<c.self_cost, c.living_infl>>
  ELSE IF a < c.start_age + c.self_years + c.ind_years
       THEN <<c.ind_cost, c.care_infl>>
  ELSE IF a < c.start_age + c.memory_years THEN <<c.assist_cost, c.care_infl>>
  ELSE <<c.memory_cost, c.care_infl>>

\* lines 1002-1017: <<base_cost, inflation_rate>> of the active tier
ExpenseTier(c, a) ==
  IF a < c.start_age + c.self_years THEN <<c.self_cost, c.living_infl>>
  ELSE IF a < c.start_age + c.assist_years THEN <<c.ind_cost, c.care_infl>>
  ELSE IF a < c.start_age + c.memory_years THEN <<c.assist_cost, c.care_infl>>
  ELSE <<c.memory_cost, c.care_infl>>

\* the living cost compounded over the years since the tier became active
DetermineExpenses_SinceTierStart(c, s, k, a) ==
  LET tier == ExpenseTier(c, a)
      since == IF a < c.start_age + c.self_years THEN 0
               ELSE IF a < c.start_age + c.assist_years THEN Max(0, c.self_years)
               ELSE IF a < c.start_age + c.memory_years THEN Max(0, c.assist_years)
               ELSE Max(0, c.memory_years)
      mult == PowRS(tier[2], k - Min(k, since))
      inflated == MulDiv(tier[1], mult, RS)
  IN  [s EXCEPT !.base_cost = tier[1],
                !.inflation_rate = tier[2],
                !.inflation_multiplier = mult,
                !.inflated_base_cost = inflated,
                !.expenses = inflated + s.debt_interest_annual]

\* lines 1000-1025: living cost of the year, plus the debt interest
DetermineExpenses(c, s, k, a) ==
  LET tier == ExpenseTier(c, a)
      mult == PowRS(tier[2], k)
      inflated == MulDiv(tier[1], mult, RS)
  IN  [s EXCEPT !.base_cost = tier[1],
                !.inflation_rate = tier[2],
                !.inflation_multiplier = mult,
                !.inflated_base_cost = inflated,
                !.expenses = inflated + s.debt_interest_annual]

\* the interest raised by the tax rate
TaxShield_Raised(interest, avg_tax_rate) == Grow(interest, avg_tax_rate)

\* lines 1044 (1072, 1100): mortgage_tax_shield
TaxShield(interest, avg_tax_rate) == Shrink(interest, avg_tax_rate)

\* one mortgage's year without the payoff at the end of the term: the
\* months are counted down but the balance is left as amortized
MortgageYear_NoPayoff(m, active, avg_tax_rate) ==
  IF m[1] > 0 /\ active /\ m[2] > 0
  THEN Only({ <<am[1] + am[2], am[1], Shrink(am[1], avg_tax_rate),
                am[3], Max(0, m[2] - 12)>> :
              am \in {calculate_annual_mortgage_amortization(m[1], m[3], m[4], m[2])} })
  ELSE <<0, 0, 0, m[1], m[2]>>

\* lines 1032-1053 (1060-1081, 1088-1109): one mortgage's year.  m is
\* <<balance, remaining months, monthly payment, monthly rate>>, active is
\* the guard on the sale offset; the result is <<payment_annual,
\* interest_annual, tax_shield, balance, remaining months>>
MortgageYear(m, active, avg_tax_rate) ==
  IF m[1] > 0 /\ active /\ m[2] > 0
  THEN Only({ LET months == Max(0, m[2] - 12)
                   paid_off == months <= 0 \/ am[3] <= 0
               IN  <<am[1] + am[2], am[1], TaxShield(am[1], avg_tax_rate),
                     IF paid_off THEN 0 ELSE am[3],
                     IF paid_off THEN 0 ELSE months>> :
               am \in {calculate_annual_mortgage_amortization(m[1], m[3], m[4], m[2])} })
  ELSE <<0, 0, 0, m[1], m[2]>>

\* lines 1027-1053: mortgage of home 1
MortgagePayments(c, s, k) ==
  Only({ [s EXCEPT !.mortgage_payment_annual = r[1],
                   !.mortgage_interest_annual = r[2],
                   !.mortgage_tax_shield = r[3],
                   !.mortgage_balance_current = r[4],
                   !.mortgage_remaining_months = r[5],
                   !.expenses = @ + r[1] - r[3]] :
         r \in {MortgageYear(<<s.mortgage_balance_current, s.mortgage_remaining_months,
                           s.monthly_mortgage_payment, s.monthly_mortgage_rate>>,
                         k < c.sell_home_years, c.avg_tax_rate)} })

\* lines 1055-1081: mortgage of home 2
Home2MortgagePayments(c, s, k) ==
  Only({ [s EXCEPT !.home2_mortgage_payment_annual = r[1],
                   !.home2_mortgage_interest_annual = r[2],
                   !.home2_mortgage_tax_shield = r[3],
                   !.home2_mortgage_balance_current = r[4],
                   !.home2_mortgage_remaining_months = r[5],
                   !.expenses = @ + r[1] - r[3]] :
         r \in {MortgageYear(<<s.home2_mortgage_balance_current,
                           s.home2_mortgage_remaining_months,
                           s.home2_monthly_mortgage_payment,
                           s.home2_monthly_mortgage_rate>>,
                         k < c.home2_sell_home_years, c.avg_tax_rate)} })

\* lines 1083-1109: mortgage of the purchased home (never sold)
PurchaseMortgagePayments(c, s) ==
  Only({ [s EXCEPT !.purchase_mortgage_payment_annual = r[1],
                   !.purchase_mortgage_interest_annual = r[2],
                   !.purchase_mortgage_tax_shield = r[3],
                   !.purchase_mortgage_balance_current = r[4],
                   !.purchase_mortgage_remaining_months = r[5],
                   !.expenses = @ + r[1] - r[3]] :
         r \in {MortgageYear(<<s.purchase_mortgage_balance_current,
                           s.purchase_mortgage_remaining_months,
                           s.purchase_monthly_mortgage_payment,
                           s.purchase_monthly_mortgage_rate>>,
                         TRUE, c.avg_tax_rate)} })

\* lines 1111-1121: property tax, insurance and HOA of the unsold homes
CarryingCosts(c, s, k) ==
  LET h1 == IF k < c.sell_home_years
            THEN s.home_property_tax_current + s.home_insurance_current
                 + s.home_hoa_annual
            ELSE 0
      h2 == IF k < c.home2_sell_home_years
            THEN s.home2_property_tax_current + s.home2_insurance_current
                 + s.home2_hoa_annual
            ELSE 0
      h3 == s.purchase_property_tax_current + s.purchase_insurance_current
            + s.purchase_hoa_annual
  IN  [s EXCEPT !.expenses = @ + h1 + h2 + h3]

\* expense_type chosen by cumulative durations of the tiers
ExpenseType_Cumulative(c, a) ==
  IF a < c.start_age + c.self_years THEN "Self-Sufficient"
  ELSE IF a < c.start_age + c.self_years + c.ind_years THEN "Independent Living"
  ELSE IF a < c.start_age + c.self_years + c.ind_years + c.assist_years
       THEN "Assisted Living"
  ELSE "Memory Care"

\* lines 1123-1131: expense_type
ExpenseType(c, a) ==
  IF a < c.start_age + c.self_years THEN "Self-Sufficient"
  ELSE IF a < c.start_age + c.assist_years THEN "Independent Living"
  ELSE IF a < c.start_age + c.memory_years THEN "Assisted Living"
  ELSE "Memory Care"

\* lines 1136-1161 (1165-1189): growth of a bucket with tracked untaxed
\* growth.  b is <<balance, cost_basis, tax_deferred, prev_value>>; the
\* result appends the growth amount
GrowTracked(b, rate) ==
  IF b[1] < EPS THEN <<0, 0, 0, 0, 0>>
  ELSE Only({ LET prev == b[1]
                   growth == bal - prev
                   td == IF growth > 0 THEN b[3] + growth
                         ELSE IF growth < 0 /\ bal > 0
                              THEN LET loss_ratio == IF prev > 0
                                                     THEN MulDiv(-growth, RS, prev)
                                                     ELSE 0
                                   IN  Max(0, MulDiv(b[3], RS - loss_ratio, RS))
                              ELSE b[3]
               IN  IF bal < EPS THEN <<0, 0, 0, 0, 0>>
                   ELSE <<bal, b[2], td, prev, growth>> :
               bal \in {Grow(b[1], rate)} })

\* lines 1133-1161: money market growth
GrowMoneyMarket(c, s) ==
  Only({ [s EXCEPT !.money_market = r[1], !.money_market_cost_basis = r[2],
                   !.money_market_tax_deferred = r[3],
                   !.money_market_prev_value = r[4], !.money_market_growth = r[5]] :
         r \in {GrowTracked(<<s.money_market, s.money_market_cost_basis,
                          s.money_market_tax_deferred, s.money_market_prev_value>>,
                        c.cash_growth)} })

\* lines 1163-1189: brokerage growth
GrowBrokerage(c, s) ==
  Only({ [s EXCEPT !.brokerage = r[1], !.brokerage_cost_basis = r[2],
                   !.brokerage_tax_deferred = r[3],
                   !.brokerage_prev_value = r[4], !.brokerage_growth = r[5]] :
         r \in {GrowTracked(<<s.brokerage, s.brokerage_cost_basis,
                          s.brokerage_tax_deferred, s.brokerage_prev_value>>,
                        c.stock_growth)} })

\* lines 1191-1194: IRA growth
GrowIRA(c, s) ==
  LET bal == Grow(s.ira, c.stock_growth)
  IN  [s EXCEPT !.ira = bal, !.ira_growth = bal - s.ira]

\* the liquid value with the mortgage subtracted and no floor at 0
LiquidValue_NoFloor(value, sale_cost_pct, deductions, cap_gains_rate, mortgage) ==
  LET sale_cost == Times(value, sale_cost_pct)
      tax == Times(Max(value - sale_cost - deductions, 0), cap_gains_rate)
  IN  <<value, sale_cost, tax, value - sale_cost - tax - mortgage>>

\* the liquid value with the gain taxed before the sale cost is deducted
LiquidValue_TaxBeforeCost(value, sale_cost_pct, deductions, cap_gains_rate, mortgage) ==
  LET sale_cost == Times(value, sale_cost_pct)
      tax == Times(Max(value - deductions, 0), cap_gains_rate)
      liquid == value - sale_cost - tax
  IN  <<value, sale_cost, tax,
        IF mortgage > 0 THEN Max(0, liquid - mortgage) ELSE liquid>>

\* lines 1198-1208 (1230-1240): <<sale_price, sale_cost, tax, liquid value>>
\* of a home sold today
LiquidValue(value, sale_cost_pct, deductions, cap_gains_rate, mortgage) ==
  LET sale_price == value
      sale_cost == Times(sale_price, sale_cost_pct)
      taxable_gain == Max(sale_price - sale_cost - deductions, 0)
      tax == Times(taxable_gain, cap_gains_rate)
      liquid == sale_price - sale_cost - tax
  IN  <<sale_price, sale_cost, tax,
        IF mortgage > 0 THEN Max(0, liquid - mortgage) ELSE liquid>>

\* lines 1196-1208: liquid value of home 1
LiquidHomeValue(c, s) ==
  Only({ [s EXCEPT !.sale_price = r[1], !.sale_cost = r[2], !.home_tax = r[3],
                   !.liquid_home_value = r[4]] :
         r \in {LiquidValue(s.home_value, c.sale_cost_pct, c.tax_deductions,
                        c.cap_gains_rate, s.mortgage_balance_current)} })

\* the mortgage left as it is when the home is sold
PayOffAtSale_Skipped(balance, months) == <<balance, months>>

\* lines 1215-1217 (1247-1249): the mortgage is paid off when the home is
\* sold; <<balance, remaining months>>
PayOffAtSale(balance, months) ==
  IF balance > 0 THEN <<0, 0>> ELSE <<balance, months>>

\* the sale of home 1 with the proceeds replacing the brokerage balance
HomeSale_Overwrite(c, s, k) ==
  IF k = c.sell_home_years
  THEN [s EXCEPT !.home_sale_this_year = TRUE,
                 !.mortgage_balance_current = 0,
                 !.mortgage_remaining_months =
                     PayOffAtSale(s.mortgage_balance_current, @)[2],
                 !.brokerage = s.liquid_home_value,
                 !.brokerage_cost_basis = s.liquid_home_value,
                 !.brokerage_tax_deferred = 0,
                 !.brokerage_prev_value = s.liquid_home_value,
                 !.home_value = 0,
                 !.liquid_home_value = 0]
  ELSE [s EXCEPT !.home_sale_this_year = FALSE]

\* lines 1210-1226: sale of home 1 in the year whose index is the offset
HomeSale(c, s, k) ==
  IF k = c.sell_home_years
  THEN [s EXCEPT !.home_sale_this_year = TRUE,
                 !.mortgage_balance_current =
                     PayOffAtSale(@, s.mortgage_remaining_months)[1],
                 !.mortgage_remaining_months =
                     PayOffAtSale(s.mortgage_balance_current, @)[2],
                 !.brokerage = @ + s.liquid_home_value,
                 !.brokerage_cost_basis = s.liquid_home_value,
                 !.brokerage_tax_deferred = 0,
                 !.brokerage_prev_value = s.brokerage + s.liquid_home_value,
                 !.home_value = 0,
                 !.liquid_home_value = 0]
  ELSE [s EXCEPT !.home_sale_this_year = FALSE]

\* lines 1228-1240: liquid value of home 2
LiquidHome2Value(c, s) ==
  Only({ [s EXCEPT !.home2_sale_price = r[1], !.home2_sale_cost = r[2],
                   !.home2_tax = r[3], !.home2_liquid_value = r[4]] :
         r \in {LiquidValue(s.home2_value, c.home2_sale_cost_pct, c.home2_tax_deductions,
                        c.cap_gains_rate, s.home2_mortgage_balance_current)} })

\* lines 1242-1259: sale of home 2 in the year whose index is the offset
Home2Sale(c, s, k) ==
  IF k = c.home2_sell_home_years
  THEN [s EXCEPT !.home2_sale_this_year = TRUE,
                 !.home2_mortgage_balance_current =
                     PayOffAtSale(@, s.home2_mortgage_remaining_months)[1],
                 !.home2_mortgage_remaining_months =
                     PayOffAtSale(s.home2_mortgage_balance_current, @)[2],
                 !.brokerage = @ + s.home2_liquid_value,
                 !.brokerage_cost_basis = @ + s.home2_liquid_value,
                 !.brokerage_prev_value = s.brokerage + s.home2_liquid_value,
                 !.home2_value = 0,
                 !.home2_liquid_value = 0]
  ELSE [s EXCEPT !.home2_sale_this_year = FALSE]

\* income and cash flow with the SSN taxed like the other income
IncomeAndCashFlow_TaxedSSN(c, s, a) ==
  LET ssn_this_year == IF a >= c.ssn_start_age THEN c.ssn_income ELSE 0
      employment_this_year == IF a <= c.employment_end_age
                              THEN c.employment_income ELSE 0
      income == Shrink(ssn_this_year + c.pension_income + employment_this_year,
                       c.avg_tax_rate)
  IN  [s EXCEPT !.income_annual = income,
                !.cash_flow = income - s.expenses,
                !.mm_withdrawal = 0, !.mm_withdrawal_tax = 0,
                !.brokerage_withdrawal = 0, !.brokerage_withdrawal_tax = 0,
                !.ira_withdrawal = 0, !.ira_withdrawal_tax = 0,
                !.debt_taken_this_year = 0]

\* income and cash flow with the year's investment growth counted as income
IncomeAndCashFlow_GrowthAsIncome(c, s, a) ==
  LET ssn_this_year == IF a >= c.ssn_start_age THEN c.ssn_income ELSE 0
      employment_this_year == IF a <= c.employment_end_age
                              THEN c.employment_income ELSE 0
      income == ssn_this_year
                + Shrink(c.pension_income + employment_this_year, c.avg_tax_rate)
                + s.money_market_growth + s.brokerage_growth + s.ira_growth
  IN  [s EXCEPT !.income_annual = income,
                !.cash_flow = income - s.expenses,
                !.mm_withdrawal = 0, !.mm_withdrawal_tax = 0,
                !.brokerage_withdrawal = 0, !.brokerage_withdrawal_tax = 0,
                !.ira_withdrawal = 0, !.ira_withdrawal_tax = 0,
                !.debt_taken_this_year = 0]

\* lines 1261-1276: income, cash flow, and the year's withdrawal trackers
IncomeAndCashFlow(c, s, a) ==
  LET ssn_this_year == IF a >= c.ssn_start_age THEN c.ssn_income ELSE 0
      employment_this_year == IF a <= c.employment_end_age
                              THEN c.employment_income ELSE 0
      income == ssn_this_year
                + Shrink(c.pension_income + employment_this_year, c.avg_tax_rate)
  IN  [s EXCEPT !.income_annual = income,
                !.cash_flow = income - s.expenses,
                !.mm_withdrawal = 0, !.mm_withdrawal_tax = 0,
                !.brokerage_withdrawal = 0, !.brokerage_withdrawal_tax = 0,
                !.ira_withdrawal = 0, !.ira_withdrawal_tax = 0,
                !.debt_taken_this_year = 0]

\* a surplus credited to the IRA
Surplus_ToIRA(s) == [s EXCEPT !.ira = @ + s.cash_flow]

\* a surplus credited to the balance of the money market only
Surplus_NoBasis(s) == [s EXCEPT !.money_market = @ + s.cash_flow]

\* a surplus that first pays down the debt, the rest going to the money
\* market
Surplus_RepaysDebt(s) ==
  [s EXCEPT !.debt_balance = @ - Min(@, s.cash_flow),
            !.money_market = @ + (s.cash_flow - Min(s.debt_balance, s.cash_flow)),
            !.money_market_cost_basis =
                @ + (s.cash_flow - Min(s.debt_balance, s.cash_flow))]

\* lines 1278-1281: a surplus goes to the money market
Surplus(s) ==
  [s EXCEPT !.money_market = @ + s.cash_flow,
            !.money_market_cost_basis = @ + s.cash_flow]

\* the gross withdrawal computed as if the whole bucket were untaxed growth
TakeTracked_AllUntaxed(balance, tax_deferred, deficit, cap_gains_rate) ==
  Min(balance, MulDiv(deficit, cap_gains_rate[2],
                      cap_gains_rate[2] - cap_gains_rate[1]))

\* lines 1293-1299 (1336-1342): gross withdrawal that nets the deficit
\* after the tax on the untaxed share of the bucket, clamped to the balance
TakeTracked(balance, tax_deferred, deficit, cap_gains_rate) ==
  Only({ Min(balance, gross_needed) :
         gross_needed \in
           { IF tax_rate_on_withdrawal < RS
             THEN MulDiv(deficit, RS, RS - tax_rate_on_withdrawal)
             ELSE deficit :
             tax_rate_on_withdrawal \in
               {Times(MulDiv(tax_deferred, RS, balance), cap_gains_rate)} } })

\* lines 1302-1304 (1345-1347): tax owed on a withdrawal of `take`
TaxOwedTracked(balance, tax_deferred, take, cap_gains_rate) ==
  Times(MulDiv(MulDiv(take, RS, balance), tax_deferred, RS), cap_gains_rate)

\* a withdrawal that reduces the tracking fields pro rata whatever is left
WithdrawTracked_NoEpsilon(b, deficit, cap_gains_rate) ==
  IF deficit > 0 /\ b[1] > 0
  THEN Only({ Only({ <<Max(0, b[1] - take),
                       MulDiv(b[2], RS - withdrawal_pct, RS),
                       MulDiv(b[3], RS - withdrawal_pct, RS),
                       Max(0, b[1] - take), take, tax_owed,
                       deficit - (take - tax_owed)>> :
                     withdrawal_pct \in {MulDiv(take, RS, b[1])},
                     tax_owed \in {TaxOwedTracked(b[1], b[3], take,
                                                  cap_gains_rate)} }) :
              take \in {TakeTracked(b[1], b[3], deficit, cap_gains_rate)} })
  ELSE <<b[1], b[2], b[3], b[4], 0, 0, deficit>>

\* lines 1291-1331 (1334-1374): withdrawal from a bucket with tracked
\* untaxed growth.  b is <<balance, cost_basis, tax_deferred, prev_value>>;
\* the result is <<balance, cost_basis, tax_deferred, prev_value,
\* withdrawal, tax, deficit>>
WithdrawTracked(b, deficit, cap_gains_rate) ==
  IF deficit > 0 /\ b[1] > 0
  THEN Only({ IF take > 0
               THEN Only({ LET net_available == take - tax_owed
                               bal == Max(0, b[1] - take)
                           IN  IF bal < EPS
                               THEN <<0, 0, 0, 0, take, tax_owed,
                                      deficit - net_available>>
                               ELSE <<bal, MulDiv(b[2], RS - withdrawal_pct, RS),
                                      MulDiv(b[3], RS - withdrawal_pct, RS), bal,
                                      take, tax_owed, deficit - net_available>> :
                           withdrawal_pct \in {MulDiv(take, RS, b[1])},
                           tax_owed \in {TaxOwedTracked(b[1], b[3], take,
                                                        cap_gains_rate)} })
               ELSE <<b[1], b[2], b[3], b[4], 0, 0, deficit>> :
               take \in {TakeTracked(b[1], b[3], deficit, cap_gains_rate)} })
  ELSE <<b[1], b[2], b[3], b[4], 0, 0, deficit>>

\* lines 1287-1331: 1. withdraw from the money market
WithdrawMoneyMarket(c, s) ==
  Only({ [s EXCEPT !.money_market = r[1], !.money_market_cost_basis = r[2],
                   !.money_market_tax_deferred = r[3],
                   !.money_market_prev_value = r[4],
                   !.mm_withdrawal = r[5], !.mm_withdrawal_tax = r[6],
                   !.deficit = r[7]] :
         r \in {WithdrawTracked(<<s.money_market, s.money_market_cost_basis,
                              s.money_market_tax_deferred,
                              s.money_market_prev_value>>,
                            s.deficit, c.cap_gains_rate)} })

\* lines 1333-1374: 2. withdraw from the brokerage
WithdrawBrokerage(c, s) ==
  Only({ [s EXCEPT !.brokerage = r[1], !.brokerage_cost_basis = r[2],
                   !.brokerage_tax_deferred = r[3],
                   !.brokerage_prev_value = r[4],
                   !.brokerage_withdrawal = r[5], !.brokerage_withdrawal_tax = r[6],
                   !.deficit = r[7]] :
         r \in {WithdrawTracked(<<s.brokerage, s.brokerage_cost_basis,
                              s.brokerage_tax_deferred, s.brokerage_prev_value>>,
                            s.deficit, c.cap_gains_rate)} })

\* the IRA withdrawal without the gross-up for the tax
WithdrawIRA_NoGrossUp(c, s) ==
  IF s.deficit > 0 /\ s.ira > 0
  THEN LET take_ira == Min(s.ira, s.deficit)
           tax_owed_ira == Times(take_ira, c.avg_tax_rate)
           bal == Max(0, s.ira - take_ira)
       IN  [s EXCEPT !.ira_withdrawal = take_ira,
                     !.ira_withdrawal_tax = tax_owed_ira,
                     !.ira = IF bal < EPS THEN 0 ELSE bal,
                     !.deficit = @ - (take_ira - tax_owed_ira)]
  ELSE s

\* lines 1376-1408: 3. withdraw from the IRA
WithdrawIRA(c, s) ==
  IF s.deficit > 0 /\ s.ira > 0
  THEN Only({ IF take_ira > 0
               THEN Only({ LET net_available == take_ira - tax_owed_ira
                               bal == Max(0, s.ira - take_ira)
                           IN  [s EXCEPT !.ira_withdrawal = take_ira,
                                         !.ira_withdrawal_tax = tax_owed_ira,
                                         !.ira = IF bal < EPS THEN 0 ELSE bal,
                                         !.deficit = @ - net_available] :
                           tax_owed_ira \in {Times(take_ira, c.avg_tax_rate)} })
               ELSE s :
               take_ira \in
                 { Min(s.ira, gross_needed) :
                   gross_needed \in
                     { IF c.avg_tax_rate[1] < c.avg_tax_rate[2]
                       THEN MulDiv(s.deficit, c.avg_tax_rate[2],
                                   c.avg_tax_rate[2] - c.avg_tax_rate[1])
                       ELSE s.deficit } } })
  ELSE s

\* lines 1422-1423: the two "home available" conditions of the debt step
HomeAvailable(k, sell_years, value, brokerage_depleted) ==
  (k < sell_years /\ value > 0) \/ (k >= sell_years /\ brokerage_depleted)

\* lines 1410-1433: 4. take debt for what is left
TakeDebt(c, s, k) ==
  IF s.deficit > 0
  THEN LET money_market_depleted == s.money_market <= EPS
           brokerage_depleted == s.brokerage <= EPS
           ira_depleted == s.ira <= EPS
           primary_home_available ==
             HomeAvailable(k, c.sell_home_years, s.home_value, brokerage_depleted)
           second_home_available ==
             HomeAvailable(k, c.home2_sell_home_years, s.home2_value,
                           brokerage_depleted)
       IN  IF money_market_depleted /\ brokerage_depleted /\ ira_depleted
              /\ primary_home_available /\ second_home_available
           THEN [s EXCEPT !.debt_taken_this_year = s.deficit,
                          !.debt_balance = @ + s.deficit,
                          !.deficit = 0]
           ELSE [s EXCEPT !.debt_taken_this_year = 0]
  ELSE [s EXCEPT !.debt_taken_this_year = 0]

\* the deficit borrowed before any bucket is visited
ResolveCashFlow_BorrowFirst(c, s, k) ==
  IF s.cash_flow >= 0 THEN Surplus(s)
  ELSE [s EXCEPT !.debt_taken_this_year = -s.cash_flow,
                 !.debt_balance = @ - s.cash_flow]

\* lines 1278-1433: surplus, or the withdrawal cascade and then the debt
ResolveCashFlow(c, s, k) ==
  IF s.cash_flow >= 0 THEN Surplus(s)
  ELSE Only({ TakeDebt(c, s3, k) :
                s3 \in { WithdrawIRA(c, s2) :
                  s2 \in { WithdrawBrokerage(c, s1) :
                    s1 \in { WithdrawMoneyMarket(c, [s EXCEPT !.deficit = -s.cash_flow]) } } } })

\* lines 1291-1302 (1334-1345): the divisors of a withdrawal from a bucket
\* with tracked untaxed growth: the balance, and 1 - tax_rate_on_withdrawal
\* (scaled by RS) when that rate is below 1
TrackedDivisors(balance, tax_deferred, deficit, cap_gains_rate) ==
  IF deficit > 0 /\ balance > 0
  THEN {balance} \cup
       { RS - t : t \in { r \in {Times(MulDiv(tax_deferred, RS, balance),
                                        cap_gains_rate)} : r < RS } }
  ELSE {}

\* lines 1379-1383: the divisor of the IRA withdrawal, 1 - avg_tax_rate
\* (as a numerator over the rate's denominator)
IRADivisors(c, s) ==
  IF s.deficit > 0 /\ s.ira > 0 /\ c.avg_tax_rate[1] < c.avg_tax_rate[2]
  THEN {c.avg_tax_rate[2] - c.avg_tax_rate[1]}
  ELSE {}

\* the divisors of the withdrawal cascade of one year, s being the state
\* after the cash flow is computed
CascadeDivisors(c, s) ==
  IF s.cash_flow >= 0 THEN {}
  ELSE UNION { TrackedDivisors(s1.money_market, s1.money_market_tax_deferred,
                               s1.deficit, c.cap_gains_rate)
               \cup UNION { TrackedDivisors(s2.brokerage, s2.brokerage_tax_deferred,
                                            s2.deficit, c.cap_gains_rate)
                            \cup UNION { IRADivisors(c, s3) :
                                           s3 \in {WithdrawBrokerage(c, s2)} } :
                            s2 \in {WithdrawMoneyMarket(c, s1)} } :
               s1 \in {[s EXCEPT !.deficit = -s.cash_flow]} }

\* net worth with the IRA counted before tax
NetWorth_GrossIRA(c, s) ==
  LET purchase_home_liquid_value ==
        s.purchase_home_value - s.purchase_mortgage_balance_current
  IN  [s EXCEPT !.ira_liquid = s.ira,
                !.purchase_home_liquid_value = purchase_home_liquid_value,
                !.total_assets = s.money_market + s.brokerage + s.ira
                                 + s.liquid_home_value + s.home2_liquid_value
                                 + purchase_home_liquid_value - s.debt_balance]

\* lines 1435-1442: net worth
NetWorth(c, s) ==
  LET ira_liquid == Shrink(s.ira, c.avg_tax_rate)
      purchase_home_liquid_value ==
        s.purchase_home_value - s.purchase_mortgage_balance_current
  IN  [s EXCEPT !.ira_liquid = ira_liquid,
                !.purchase_home_liquid_value = purchase_home_liquid_value,
                !.total_assets = s.money_market + s.brokerage + ira_liquid
                                 + s.liquid_home_value + s.home2_liquid_value
                                 + purchase_home_liquid_value - s.debt_balance]

\* lines 1499-1568: the values appended to the series for one year
Row(s, a) ==
  [ age |-> a,
    net_worth |-> s.total_assets,
    expenses |-> s.expenses,
    cash_flow |-> s.cash_flow,
    income |-> s.income_annual,
    money_market |-> s.money_market,
    brokerage |-> s.brokerage,
    ira |-> s.ira,
    ira_liquid |-> s.ira_liquid,
    home |-> s.liquid_home_value,
    mortgage_balance |-> s.mortgage_balance_current,
    home2 |-> s.home2_liquid_value,
    home2_mortgage_balance |-> s.home2_mortgage_balance_current,
    purchase_home |-> s.purchase_home_liquid_value,
    purchase_mortgage_balance |-> s.purchase_mortgage_balance_current,
    debt |-> s.debt_balance,
    debt_interest |-> s.debt_interest_annual,
    money_market_growth |-> s.money_market_growth,
    brokerage_growth |-> s.brokerage_growth,
    ira_growth |-> s.ira_growth,
    mm_withdrawal |-> s.mm_withdrawal,
    mm_withdrawal_tax |-> s.mm_withdrawal_tax,
    brokerage_withdrawal |-> s.brokerage_withdrawal,
    brokerage_withdrawal_tax |-> s.brokerage_withdrawal_tax,
    ira_withdrawal |-> s.ira_withdrawal,
    ira_withdrawal_tax |-> s.ira_withdrawal_tax,
    home_sale_price |-> IF s.home_sale_this_year THEN s.sale_price ELSE 0,
    home2_sale_price |-> IF s.home2_sale_this_year THEN s.home2_sale_price ELSE 0,
    expense_type |-> s.expense_type ]

--------------------------------------------------------------------------
(* Configurations: the values of the sidebar inputs (lines 501-811)        *)

\* the longest simulated range, end_age - start_age
MaxSpan == 3

\* p percent, as a slider divided by 100 yields it
Pct(p) == <<p, 100>>

\* no homes, no income, no balances, no costs; every rate zero
Base ==
  [ start_age |-> 70, end_age |-> 70,
    home_value_now |-> 0, home_growth |-> Zero, tax_deductions |-> 0,
    sell_home_years |-> 0, sale_cost_pct |-> Zero,
    mortgage_balance |-> 0, mortgage_term |-> 0, mortgage_rate |-> Zero,
    home_property_tax |-> 0, home_insurance |-> 0, home_hoa_monthly |-> 0,
    home2_value_now |-> 0, home2_growth |-> Zero, home2_tax_deductions |-> 0,
    home2_sell_home_years |-> 0, home2_sale_cost_pct |-> Zero,
    home2_mortgage_balance |-> 0, home2_mortgage_term |-> 0,
    home2_mortgage_rate |-> Zero,
    home2_property_tax |-> 0, home2_insurance |-> 0, home2_hoa_monthly |-> 0,
    purchase_price |-> 0, percent_down |-> Pct(100), purchase_term |-> 1,
    purchase_rate |-> Zero, purchase_growth |-> Zero,
    purchase_property_tax |-> 0, purchase_insurance |-> 0,
    purchase_hoa_monthly |-> 0,
    ssn_income |-> 0, pension_income |-> 0, employment_income |-> 0,
    ssn_start_age |-> 70, employment_end_age |-> 70,
    cash_start |-> 0, ira_start |-> 0,
    self_years |-> 2, self_cost |-> 0, ind_years |-> 2, ind_cost |-> 0,
    assist_years |-> 10, assist_cost |-> 0, memory_years |-> 20, memory_cost |-> 0,
    avg_tax_rate |-> Zero, cap_gains_rate |-> Zero,
    living_infl |-> Zero, care_infl |-> Zero,
    stock_growth |-> Zero, cash_growth |-> Zero, debt_interest_rate |-> Zero ]

\* the worked scenario: an IRA only, one taxed income, flat expenses
Example ==
  { [Base EXCEPT !.ira_start = USD(100000), !.stock_growth = Pct(5),
                 !.pension_income = USD(20000), !.avg_tax_rate = Pct(30),
                 !.self_cost = USD(30000), !.self_years = 5] }

\* buckets and incomes against living costs that change tier, with debt
Buckets ==
  { [Base EXCEPT !.cash_start = cash, !.ira_start = ira,
                 !.pension_income = pension, !.ssn_income = USD(6000),
                 !.ssn_start_age = 71,
                 !.self_cost = USD(24000), !.self_years = 1,
                 !.ind_cost = USD(36000), !.assist_years = 2,
                 !.assist_cost = USD(40000), !.memory_years = 3,
                 !.memory_cost = USD(48000),
                 !.living_infl = Pct(3), !.care_infl = Pct(4),
                 !.avg_tax_rate = tax, !.cap_gains_rate = Pct(25),
                 !.cash_growth = growth, !.stock_growth = Pct(7),
                 !.debt_interest_rate = Pct(8)] :
      cash \in {0, USD(20000), USD(150000)},
      ira \in {0, USD(30000), USD(90000)},
      pension \in {0, USD(27600), USD(80000)},
      tax \in {Zero, Pct(30)},
      growth \in {Zero, <<9, 200>>} }

\* two homes with mortgages and sale offsets, little cash
Homes ==
  { [Base EXCEPT !.home_value_now = hv, !.home_growth = Pct(4),
                 !.tax_deductions = USD(100000), !.sell_home_years = sell,
                 !.sale_cost_pct = Pct(6),
                 !.mortgage_balance = mb, !.mortgage_term = term,
                 !.mortgage_rate = Pct(6),
                 !.home_property_tax = USD(2000), !.home_insurance = USD(1000),
                 !.home_hoa_monthly = USD(100),
                 !.home2_value_now = USD(120000), !.home2_growth = Pct(4),
                 !.home2_tax_deductions = USD(50000),
                 !.home2_sell_home_years = sell2,
                 !.home2_sale_cost_pct = Pct(6),
                 !.home2_mortgage_balance = USD(40000), !.home2_mortgage_term = 2,
                 !.home2_mortgage_rate = Zero,
                 !.cash_start = USD(10000), !.ira_start = ira,
                 !.pension_income = USD(20000),
                 !.self_cost = USD(30000), !.self_years = 2,
                 !.ind_cost = USD(50000),
                 !.living_infl = Pct(3), !.care_infl = Pct(4),
                 !.avg_tax_rate = Pct(30), !.cap_gains_rate = Pct(25),
                 !.cash_growth = Pct(4), !.stock_growth = Pct(7),
                 !.debt_interest_rate = Pct(8)] :
      hv \in {0, USD(300000)},
      sell \in {0, 1, 2, 5},
      mb \in {0, USD(60000), USD(400000)},
      term \in {0, 2, 11},
      sell2 \in {0, 1, 5},
      ira \in {0, USD(20000)} }

\* a purchased home with a loan, and mortgage payments as the only expense
Purchase ==
  { [Base EXCEPT !.purchase_price = USD(290000), !.percent_down = down,
                 !.purchase_term = term, !.purchase_rate = rate,
                 !.purchase_growth = Pct(4),
                 !.purchase_property_tax = tax, !.purchase_insurance = tax,
                 !.cash_start = USD(50000), !.cash_growth = Pct(4),
                 !.avg_tax_rate = atr, !.cap_gains_rate = Pct(25),
                 !.debt_interest_rate = Pct(8)] :
      down \in {Pct(0), Pct(83), Pct(100)},
      term \in {1, 2, 5},
      rate \in {Zero, <<31, 400>>},
      tax \in {0, USD(3000)},
      atr \in {Zero, Pct(30), Pct(40)} }

\* buckets that run dry and are funded again: a benefit that starts late
\* and exceeds the expenses, a home sold after the first year, and no
\* second home
Refill ==
  { [Base EXCEPT !.cash_start = cash, !.ira_start = ira,
                 !.ssn_income = USD(50000), !.ssn_start_age = ssn_age,
                 !.self_cost = USD(30000), !.self_years = 5,
                 !.home_value_now = hv, !.home_growth = Pct(4),
                 !.tax_deductions = USD(100000), !.sale_cost_pct = Pct(6),
                 !.sell_home_years = sell,
                 !.home2_sell_home_years = sell2,
                 !.avg_tax_rate = Pct(30), !.cap_gains_rate = Pct(25),
                 !.cash_growth = <<9, 200>>, !.stock_growth = Pct(7),
                 !.debt_interest_rate = Pct(8)] :
      cash \in {USD(5000), USD(20000)},
      ira \in {0, USD(10000)},
      ssn_age \in {71, 72, 73},
      hv \in {0, USD(200000)},
      sell \in {1, 2},
      sell2 \in {0, 2} }

\* the worked sale: a home worth 500000 when sold in year 0 (no growth),
\* sale cost 6%, deductions 250000, capital gains 25%, no mortgage
SaleExample ==
  { [Base EXCEPT !.home_value_now = USD(500000), !.sell_home_years = 0,
                 !.sale_cost_pct = Pct(6), !.tax_deductions = USD(250000),
                 !.cap_gains_rate = Pct(25),
                 !.self_cost = cost, !.self_years = 5,
                 !.stock_growth = growth] :
      cost \in {0, USD(30000)},
      growth \in {Zero, Pct(7)} }

\* expense tiers with different thresholds, costs and inflation rates,
\* paid from a money market that lasts
Tiers ==
  { [Base EXCEPT !.cash_start = USD(500000),
                 !.self_years = sy, !.self_cost = USD(24000),
                 !.ind_years = iy, !.ind_cost = USD(36000),
                 !.assist_years = ay, !.assist_cost = USD(40000),
                 !.memory_years = my, !.memory_cost = USD(48000),
                 !.living_infl = Pct(3), !.care_infl = Pct(4)] :
      sy \in {0, 1, 2}, iy \in {1, 2}, ay \in {1, 2, 3}, my \in {2, 4} }

\* all three properties with loans, and an IRA that lasts; a pension
\* below or above the expenses
Estate ==
  { [Base EXCEPT !.home_value_now = USD(300000), !.home_growth = Pct(4),
                 !.tax_deductions = USD(100000), !.sell_home_years = sell,
                 !.sale_cost_pct = Pct(6),
                 !.mortgage_balance = USD(60000), !.mortgage_term = 11,
                 !.mortgage_rate = Pct(6),
                 !.home_property_tax = USD(2000),
                 !.home2_value_now = USD(120000), !.home2_growth = Pct(4),
                 !.home2_tax_deductions = USD(50000),
                 !.home2_sell_home_years = sell2,
                 !.home2_sale_cost_pct = Pct(6),
                 !.home2_mortgage_balance = USD(40000), !.home2_mortgage_term = 4,
                 !.home2_mortgage_rate = Pct(5),
                 !.purchase_price = USD(290000), !.percent_down = Pct(83),
                 !.purchase_term = 5, !.purchase_rate = <<31, 400>>,
                 !.purchase_growth = Pct(4),
                 !.cash_start = USD(10000), !.ira_start = USD(200000),
                 !.pension_income = pension,
                 !.employment_income = USD(12000), !.employment_end_age = 71,
                 !.ssn_income = USD(6000), !.ssn_start_age = 72,
                 !.self_cost = USD(30000), !.self_years = 5,
                 !.living_infl = Pct(3), !.care_infl = Pct(4),
                 !.avg_tax_rate = Pct(30), !.cap_gains_rate = Pct(25),
                 !.cash_growth = Pct(4), !.stock_growth = Pct(7),
                 !.debt_interest_rate = Pct(8)] :
      sell \in {1, 5}, sell2 \in {0, 5},
      pension \in {USD(20000), USD(150000)} }

\* a bucket that pays three inflated years of expenses and is left with
\* less than a cent by the fourth: the money market, or the brokerage
\* funded by a sale in year 0
Residue ==
  { [Base EXCEPT !.cash_start = USD(125513) - proceeds,
                 !.home_value_now = proceeds,
                 !.self_cost = USD(30001), !.self_years = 5,
                 !.living_infl = Pct(3)] :
      proceeds \in {0, USD(125513)} }

Configs ==
  Example \cup Buckets \cup Homes \cup Purchase \cup Refill \cup SaleExample
  \cup Tiers \cup Estate \cup Residue

--------------------------------------------------------------------------
(* The program *)

--------------------------------------------------------------------------
(* import_data: pasted sheet rows -> session state (lines 79-413) *)

\* number of pasted rows with distinct parameter names
MaxRows == 2

\* st.session_state has no 'imported_<var>' key
Unset == [kind |-> "unset"]

Num(n) == [kind |-> "num", v |-> n]

\* values as parse_pasted_data (lines 118-129) hands them over: a float
\* when float() accepts the cleaned text (nan included), else the text
\* itself, which int()/float() of lines 355-360 then rejects as well
PastedValues == { Num(25), Num(70), Num(99), [kind |-> "nan"], [kind |-> "str"] }

\* parameter names, lower-cased and split into words (lines 144-150)
PastedNames ==
  { <<"age">>, <<"end", "age">>, <<"home", "growth">>,
    <<"remaining", "term">>, <<"second", "home", "remaining", "term">>,
    <<"cash">>, <<"foo">> }

\* len() of a word of the keyword table
Chars == [age |-> 3, end |-> 3, home |-> 4, value |-> 5, growth |-> 6,
          remaining |-> 9, mortgage |-> 8, term |-> 4, second |-> 6,
          home2 |-> 5, cash |-> 4, money |-> 5, market |-> 6]

\* the rows of `mappings` (lines 156-212) whose variable is among the
\* modelled ones; the keywords of one variable in the order of the list
mappings ==
  << [var |-> "start_age", keywords |-> << <<"age">> >>],
     [var |-> "end_age", keywords |-> << <<"end", "age">> >>],
     [var |-> "home_growth",
      keywords |-> << <<"home", "value", "growth">>, <<"home", "growth">> >>],
     [var |-> "mortgage_term",
      keywords |-> << <<"remaining", "term">>, <<"mortgage", "term">> >>],
     [var |-> "home2_mortgage_term",
      keywords |-> << <<"second", "home", "remaining", "term">>,
                      <<"home2", "remaining", "term">>,
                      <<"second", "home", "mortgage", "term">>,
                      <<"home2", "mortgage", "term">> >>],
     [var |-> "cash_start",
      keywords |-> << <<"cash">>, <<"money", "market">> >>] >>

ImportVars == { mappings[m].var : m \in DOMAIN mappings }

\* len(keyword): the letters of its words and the blanks between them
RECURSIVE KeywordLen(_)
KeywordLen(kw) ==
  IF kw = <<>> THEN 0
  ELSE Chars[Head(kw)] + (IF Len(kw) > 1 THEN 1 ELSE 0) + KeywordLen(Tail(kw))

\* lines 242-256: the keyword starts the name or stands in it as whole words
KeywordMatches(kw, name) ==
  \E at \in 1..(Len(name) - Len(kw) + 1) :
     SubSeq(name, at, at + Len(kw) - 1) = kw

\* lines 227-257: the first keyword of a variable that matches is the one
\* recorded for it (`break`)
FirstMatch(m, name) ==
  LET hits == { k \in DOMAIN mappings[m].keywords :
                  KeywordMatches(mappings[m].keywords[k], name) }
  IN  IF hits = {} THEN 0
      ELSE KeywordLen(mappings[m].keywords[
             CHOOSE k \in hits : \A o \in hits : k <= o])

\* lines 259-264: the variable of the longest recorded keyword, "none" for
\* None (no two variables record keywords of one length for a modelled name)
map_parameter_to_variable(name) ==
  LET matched == { m \in DOMAIN mappings : FirstMatch(m, name) > 0 }
  IN  IF matched = {} THEN "none"
      ELSE mappings[CHOOSE m \in matched :
                      \A o \in matched : FirstMatch(m, name) >= FirstMatch(o, name)].var

\* Python's chained comparison lo <= value <= hi; False for nan
Between(lo, value, hi) ==
  value.kind = "num" /\ lo <= value.v /\ value.v <= hi

\* lines 363-390: the range checks import_data makes, by variable
RangeChecked(var, value) ==
  CASE var = "start_age" -> Between(50, value, 95)
    [] var = "end_age" -> Between(50, value, 120)
    [] var = "mortgage_term" -> Between(0, value, 30)
    [] var = "home_growth" -> Between(0, value, 100)
    [] OTHER -> TRUE

\* the range the sidebar widget of the variable accepts (lines 501-512,
\* 524, 550-556, 625-631, 743-747); end_age from 50, the least start_age
WidgetRange(var, value) ==
  CASE var = "start_age" -> Between(50, value, 95)
    [] var = "end_age" -> Between(50, value, 120)
    [] var = "mortgage_term" -> Between(0, value, 30)
    [] var = "home2_mortgage_term" -> Between(0, value, 30)
    [] var = "home_growth" -> Between(0, value, 8)
    [] OTHER -> value.kind = "num"

\* the session state before the import: one value from an earlier import
SessionBefore ==
  [v \in ImportVars |-> IF v = "start_age" THEN Num(80) ELSE Unset]

\* data_dict (lines 105-134): rows in the order pasted, one per name
PastedData ==
  { d \in UNION { [1..n -> [name : PastedNames, value : PastedValues]] :
                    n \in 0..MaxRows } :
      \A a, b \in DOMAIN d : a # b => d[a].name # d[b].name }

NoResult == [success |-> FALSE, message |-> "pending", count |-> 0]

\* the state of a session in which nothing is being imported
ImportIdle ==
  [pc |-> "idle", data |-> <<>>, pos |-> 0, session |-> SessionBefore,
   imported_count |-> 0, errors |-> 0, result |-> NoResult]

\* no run came before this one
NoRerun == [run |-> 1, cfg |-> Base, rows |-> <<>>]

Init ==
  /\ cfg \in { [c EXCEPT !.end_age = c.start_age + span] :
                 c \in Configs, span \in 0..MaxSpan }
  /\ i = 0
  /\ st = InitState(cfg)
  /\ rows = <<>>
  /\ mid = [start |-> st, growth |-> st, liquid |-> st, sale |-> st,
            liquid2 |-> st, sale2 |-> st, income |-> st, cascade |-> st]
  /\ imp = ImportIdle
  /\ twin = NoRerun

\* one iteration of `for i, age in enumerate(ages)`: the steps of the body
\* in the order of the source (lines 972-1442), then the appends to the
\* series (lines 1499-1568).  A division by zero raises ZeroDivisionError
\* and ends the script: the iteration completes only when no divisor of
\* the run so far is 0
RunYear ==
  /\ i < Len(ages(cfg))
  /\ \E age \in {ages(cfg)[i + 1]} :
     \E s1 \in {DebtInterest(cfg, st)} :
     \E s2 \in {GrowProperties(cfg, s1)} :
     \E s3 \in {DetermineExpenses(cfg, s2, i, age)} :
     \E s4 \in {MortgagePayments(cfg, s3, i)} :
     \E s5 \in {Home2MortgagePayments(cfg, s4, i)} :
     \E s6 \in {PurchaseMortgagePayments(cfg, s5)} :
     \E s7 \in {CarryingCosts(cfg, s6, i)} :
     \E s8 \in {[s7 EXCEPT !.expense_type = ExpenseType(cfg, age)]} :
     \E s9 \in {GrowMoneyMarket(cfg, s8)} :
     \E s10 \in {GrowBrokerage(cfg, s9)} :
     \E s11 \in {GrowIRA(cfg, s10)} :
     \E s12 \in {LiquidHomeValue(cfg, s11)} :
     \E s13 \in {HomeSale(cfg, s12, i)} :
     \E s14 \in {LiquidHome2Value(cfg, s13)} :
     \E s15 \in {Home2Sale(cfg, s14, i)} :
     \E s16 \in {IncomeAndCashFlow(cfg, s15, age)} :
     \E s17 \in {ResolveCashFlow(cfg, s16, i)} :
     \E s18 \in {NetWorth(cfg, s17)} :
       /\ 0 \notin InitDivisors(cfg) \cup CascadeDivisors(cfg, s16)
       /\ st' = s18
       /\ rows' = Append(rows, Row(s18, age))
       /\ mid' = [start |-> st, growth |-> s11, liquid |-> s12, sale |-> s13,
                  liquid2 |-> s14, sale2 |-> s15, income |-> s16,
                  cascade |-> s17]
  /\ i' = i + 1
  /\ UNCHANGED <<cfg, imp, twin>>

Next == RunYear

Spec == Init /\ [][Next]_vars

\* the script runs the loop to its end without waiting for anything: an
\* iteration that can complete does complete
LiveSpec == Spec /\ WF_vars(RunYear)

\* the import button is pressed on pasted text (lines 430-432)
ImportInit ==
  /\ cfg = Base
  /\ i = 0
  /\ st = InitState(cfg)
  /\ rows = <<>>
  /\ mid = [start |-> st, growth |-> st, liquid |-> st, sale |-> st,
            liquid2 |-> st, sale2 |-> st, income |-> st, cascade |-> st]
  /\ imp \in { [ImportIdle EXCEPT !.pc = "parse", !.data = d] : d \in PastedData }
  /\ twin = NoRerun

\* lines 275-300: no row parsed ends the import at once
ImportBegin ==
  /\ imp.pc = "parse"
  /\ imp' = IF imp.data = <<>>
            THEN [imp EXCEPT !.pc = "done",
                             !.result = [success |-> FALSE,
                                         message |-> "No data found",
                                         count |-> 0]]
            ELSE [imp EXCEPT !.pc = "loop", !.pos = 1]
  /\ UNCHANGED <<cfg, i, st, rows, mid, twin>>

\* lines 303-398: one iteration of `for param_name, value in data_dict.items()`
ImportRow ==
  /\ imp.pc = "loop"
  /\ imp.pos <= Len(imp.data)
  /\ \E row \in {imp.data[imp.pos]} :
     \E var \in {map_parameter_to_variable(row.name)} :
       imp' =
         IF var = "none"
         THEN [imp EXCEPT !.pos = @ + 1]
         ELSE IF row.value.kind = "str"
         THEN [imp EXCEPT !.pos = @ + 1, !.errors = @ + 1]
         ELSE IF ~RangeChecked(var, row.value)
         THEN [imp EXCEPT !.pos = @ + 1, !.errors = @ + 1]
         ELSE [imp EXCEPT !.pos = @ + 1,
                          !.session[var] = row.value,
                          !.imported_count = @ + 1]
  /\ UNCHANGED <<cfg, i, st, rows, mid, twin>>

\* lines 400-407: the result once every row was seen
ImportReturn ==
  /\ imp.pc = "loop"
  /\ imp.pos > Len(imp.data)
  /\ imp' = [imp EXCEPT
       !.pc = "done",
       !.result = IF imp.imported_count = 0
                  THEN [success |-> FALSE,
                        message |-> "No valid parameters found",
                        count |-> 0]
                  ELSE [success |-> TRUE,
                        message |-> "Successfully imported",
                        count |-> imp.imported_count]]
  /\ UNCHANGED <<cfg, i, st, rows, mid, twin>>

ImportNext == ImportBegin \/ ImportRow \/ ImportReturn

ImportSpec == ImportInit /\ [][ImportNext]_vars

\* values typed into "Independent Living starts in (years)" (lines 766-769)
IndYears == {0, 7}

\* the script has run to its end and ind_years is changed in the sidebar:
\* the script runs again from the top with the other inputs as they were
Rerun ==
  /\ twin.run = 1
  /\ i = Len(ages(cfg))
  /\ \E iy \in IndYears \ {cfg.ind_years} :
     \E c \in {[cfg EXCEPT !.ind_years = iy]} :
     \E s \in {InitState(c)} :
       /\ cfg' = c
       /\ st' = s
       /\ mid' = [start |-> s, growth |-> s, liquid |-> s, sale |-> s,
                  liquid2 |-> s, sale2 |-> s, income |-> s, cascade |-> s]
  /\ i' = 0
  /\ rows' = <<>>
  /\ twin' = [run |-> 2, cfg |-> cfg, rows |-> rows]
  /\ UNCHANGED imp

TwinNext == RunYear \/ Rerun

TwinSpec == Init /\ [][TwinNext]_vars

--------------------------------------------------------------------------
(* Properties *)

\* the loop has run over every age
Done == i = Len(ages(cfg))

\* index (0-based) of the year the last iteration ran
LastYear == i - 1

\* the row before row k, or the values before the loop
PrevMortgage(k) == IF k = 1 THEN cfg.mortgage_balance
                   ELSE rows[k - 1].mortgage_balance

\* C1: the projection has one row per integer age of [start_age, end_age]:
\* the rows built so far carry the ages start_age, start_age + 1, ... with
\* no gap and no duplicate, they never outnumber the ages of the range, and
\* when the loop ends there are exactly end_age - start_age + 1 of them
C1_RowCompleteness ==
  /\ Len(rows) = i
  /\ Len(rows) <= cfg.end_age - cfg.start_age + 1
  /\ \A k \in 1..Len(rows) : rows[k].age = cfg.start_age + (k - 1)
  /\ Done => /\ Len(rows) = cfg.end_age - cfg.start_age + 1
             /\ rows[Len(rows)].age = cfg.end_age

\* a finished run over the longest range
C1_Witness ==
  /\ Done
  /\ cfg.end_age = cfg.start_age + MaxSpan
  /\ Len(rows) = MaxSpan + 1

\* C2: with non-negative inputs and rates in [0, 1], every row's money
\* market, brokerage and IRA balance and every property's liquid value is
\* >= 0
C2_NonNegative ==
  \A k \in 1..Len(rows) :
    /\ rows[k].money_market >= 0
    /\ rows[k].brokerage >= 0
    /\ rows[k].ira >= 0
    /\ rows[k].home >= 0
    /\ rows[k].home2 >= 0
    /\ rows[k].purchase_home >= 0

\* a year in which home 1 is unsold and worth less than its mortgage, and a
\* withdrawal has emptied the money market
C2_Witness ==
  /\ i >= 1
  /\ LastYear < cfg.sell_home_years
  /\ st.home_value > 0
  /\ st.mortgage_balance_current > st.home_value
  /\ rows[i].home = 0
  /\ rows[i].mm_withdrawal > 0
  /\ rows[i].money_market = 0

NetProceeds(price, cost, tax, mortgage) == Max(0, price - cost - tax - mortgage)

\* C4: for home 1 and for home 2, the sale step adds to the brokerage, in
\* the year whose index equals the sale offset, exactly the net proceeds
\* (price - sale cost - capital gains tax - remaining mortgage, floored at
\* 0), and adds nothing in any other year; a sale price is recorded in no
\* row but the one of the sale year
C4_ProceedsOnce ==
  /\ i >= 1 =>
       /\ mid.sale.brokerage - mid.liquid.brokerage =
            IF LastYear = cfg.sell_home_years
            THEN NetProceeds(mid.growth.home_value,
                             Times(mid.growth.home_value, cfg.sale_cost_pct),
                             mid.liquid.home_tax,
                             mid.growth.mortgage_balance_current)
            ELSE 0
       /\ mid.sale2.brokerage - mid.liquid2.brokerage =
            IF LastYear = cfg.home2_sell_home_years
            THEN NetProceeds(mid.growth.home2_value,
                             Times(mid.growth.home2_value, cfg.home2_sale_cost_pct),
                             mid.liquid2.home2_tax,
                             mid.growth.home2_mortgage_balance_current)
            ELSE 0
       /\ mid.liquid.brokerage = mid.growth.brokerage
       /\ mid.liquid2.brokerage = mid.sale.brokerage
       /\ mid.income.brokerage = mid.sale2.brokerage
  /\ \A k \in 1..Len(rows) :
       /\ rows[k].home_sale_price > 0 => k - 1 = cfg.sell_home_years
       /\ rows[k].home2_sale_price > 0 => k - 1 = cfg.home2_sell_home_years

\* the year home 1 is sold with a mortgage outstanding and a taxable gain,
\* into a brokerage that already holds the proceeds of home 2
C4_Witness ==
  /\ i >= 2
  /\ LastYear = cfg.sell_home_years
  /\ mid.growth.brokerage > 0
  /\ mid.growth.mortgage_balance_current > 0
  /\ mid.liquid.home_tax > 0
  /\ mid.sale.brokerage > mid.liquid.brokerage
  /\ rows[i].home_sale_price > 0
  /\ rows[cfg.home2_sell_home_years + 1].home2_sale_price > 0

\* C5: a bucket that is exactly 0 at the end of a year is exactly 0 at the
\* end of the next year, unless that next year credits it: the money market
\* only by a surplus (cash_flow > 0), the brokerage only in the sale year of
\* a home, the IRA never; and the growth step leaves a bucket that starts
\* the year at 0 at 0
C5_DepletionLock ==
  /\ \A k \in 2..Len(rows) :
       /\ (rows[k - 1].money_market = 0 /\ rows[k].money_market # 0)
            => rows[k].cash_flow > 0
       /\ (rows[k - 1].brokerage = 0 /\ rows[k].brokerage # 0)
            => \/ k - 1 = cfg.sell_home_years /\ rows[k].home_sale_price > 0
               \/ k - 1 = cfg.home2_sell_home_years /\ rows[k].home2_sale_price > 0
       /\ rows[k - 1].ira = 0 => rows[k].ira = 0
  /\ i >= 1 =>
       /\ mid.start.money_market = 0 =>
            mid.growth.money_market = 0 /\ mid.growth.money_market_growth = 0
       /\ mid.start.brokerage = 0 =>
            mid.growth.brokerage = 0 /\ mid.growth.brokerage_growth = 0
       /\ mid.start.ira = 0 => mid.growth.ira = 0 /\ mid.growth.ira_growth = 0

\* with positive growth rates: withdrawals empty the money market and the
\* IRA in one year; in the next the money market stays at 0 and a home sale
\* funds the empty brokerage; in the third a surplus funds the money market
\* and the IRA is still 0
C5_Witness ==
  /\ i >= 3
  /\ cfg.cash_growth[1] > 0 /\ cfg.stock_growth[1] > 0
  /\ rows[i - 2].mm_withdrawal > 0 /\ rows[i - 2].money_market = 0
  /\ rows[i - 2].ira_withdrawal > 0 /\ rows[i - 2].ira = 0
  /\ rows[i - 2].brokerage = 0
  /\ rows[i - 1].money_market = 0
  /\ rows[i - 1].brokerage > 0 /\ rows[i - 1].home_sale_price > 0
  /\ rows[i].cash_flow > 0 /\ rows[i].money_market > 0
  /\ rows[i].ira = 0

\* net (after-tax) amount the withdrawals of row r freed
NetWithdrawn(r) ==
  (r.mm_withdrawal - r.mm_withdrawal_tax)
  + (r.brokerage_withdrawal - r.brokerage_withdrawal_tax)
  + (r.ira_withdrawal - r.ira_withdrawal_tax)

\* C6: in a year with cash_flow < 0 in which no debt is taken and the
\* deficit is fully covered (a bucket is left non-empty, or what is left of
\* the deficit is within 0.01), the gross withdrawals less their taxes,
\* summed over money market, brokerage and IRA, equal -cash_flow to within
\* 0.01
C6_CascadeConservation ==
  (/\ i >= 1
   /\ st.cash_flow < 0
   /\ st.debt_taken_this_year = 0
   /\ \/ st.deficit <= EPS
      \/ st.money_market > 0 \/ st.brokerage > 0 \/ st.ira > 0)
  => /\ NetWithdrawn(rows[i]) - (-rows[i].cash_flow) <= EPS
     /\ (-rows[i].cash_flow) - NetWithdrawn(rows[i]) <= EPS

\* a deficit covered by emptying the money market, taxed on its growth, and
\* then by part of the IRA, taxed in full
C6_Witness ==
  /\ i >= 1
  /\ st.cash_flow < 0
  /\ st.debt_taken_this_year = 0
  /\ rows[i].mm_withdrawal > 0 /\ rows[i].mm_withdrawal_tax > 0
  /\ rows[i].money_market = 0
  /\ rows[i].ira_withdrawal > 0 /\ rows[i].ira_withdrawal_tax > 0
  /\ rows[i].ira > 0
  /\ st.deficit <= EPS

\* what is left of the deficit of row k once the three buckets have been
\* visited
RemainingDeficit(k) == (-rows[k].cash_flow) - NetWithdrawn(rows[k])

\* what the debt balance gained in the last year beyond its interest
NewDebt == st.debt_balance - (mid.start.debt_balance + st.debt_interest_annual)

\* C7 as stated: whenever a deficit remains after the money market, the
\* brokerage and the IRA have been visited, the whole of it is added to the
\* debt balance in that year
C7_AsStated ==
  (i >= 1 /\ st.cash_flow < 0 /\ RemainingDeficit(i) > EPS)
  => /\ NewDebt - RemainingDeficit(i) <= EPS
     /\ RemainingDeficit(i) - NewDebt <= EPS

\* C7, what the loop does: a deficit that remains is added to the debt
\* balance in full, or not at all; it is not added only in a year before
\* the sale offset of a home whose value is 0
C7_DroppedOnlyWithoutHome ==
  (i >= 1 /\ st.cash_flow < 0 /\ RemainingDeficit(i) > EPS)
  => \/ /\ NewDebt - RemainingDeficit(i) <= EPS
        /\ RemainingDeficit(i) - NewDebt <= EPS
     \/ /\ NewDebt = 0
        /\ \/ LastYear < cfg.sell_home_years /\ st.home_value = 0
           \/ LastYear < cfg.home2_sell_home_years /\ st.home2_value = 0

\* a year in which all three buckets are empty, a deficit remains and no
\* debt is taken for it
C7_Witness ==
  /\ i >= 1
  /\ st.cash_flow < 0
  /\ RemainingDeficit(i) > USD(1000)
  /\ rows[i].money_market = 0 /\ rows[i].brokerage = 0 /\ rows[i].ira = 0
  /\ NewDebt = 0
  /\ rows[i].debt = 0

\* the debt balance of the row before row k, or 0 before the loop
PrevDebt(k) == IF k = 1 THEN 0 ELSE rows[k - 1].debt

\* C8: in every row whose debt balance grew by more than the year's
\* interest, the money market, brokerage and IRA balances are all 0; and
\* when the last year borrowed, the three buckets were at most 0.01
C8_BorrowOnlyWhenDepleted ==
  /\ \A k \in 1..Len(rows) :
       rows[k].debt - PrevDebt(k) > rows[k].debt_interest
       => /\ rows[k].money_market = 0
          /\ rows[k].brokerage = 0
          /\ rows[k].ira = 0
  /\ (i >= 1 /\ st.debt_taken_this_year > 0)
     => /\ st.money_market <= EPS
        /\ st.brokerage <= EPS
        /\ st.ira <= EPS

\* a year whose withdrawals empty the money market and the IRA and which
\* borrows the rest of the deficit, on top of a debt that carries interest
C8_Witness ==
  /\ i >= 2
  /\ rows[i - 1].debt > 0
  /\ rows[i - 1].money_market + rows[i - 1].brokerage + rows[i - 1].ira > 0
  /\ rows[i].debt_interest > 0
  /\ rows[i].debt - PrevDebt(i) > rows[i].debt_interest
  /\ rows[i].mm_withdrawal + rows[i].brokerage_withdrawal + rows[i].ira_withdrawal > 0
  /\ st.debt_taken_this_year > 0

\* no property tax, insurance or HOA fee is configured for any home
NoCarryingCosts ==
  /\ cfg.home_property_tax = 0 /\ cfg.home_insurance = 0
  /\ cfg.home_hoa_monthly = 0
  /\ cfg.home2_property_tax = 0 /\ cfg.home2_insurance = 0
  /\ cfg.home2_hoa_monthly = 0
  /\ cfg.purchase_property_tax = 0 /\ cfg.purchase_insurance = 0
  /\ cfg.purchase_hoa_monthly = 0

\* C9: in every year and for each of the three mortgages the tax shield
\* is at most the year's interest and the annual payment less the shield
\* is >= 0; in a year with zero living cost, zero carrying costs and zero
\* debt interest the expenses are >= 0
C9_TaxShieldBound ==
  i >= 1 =>
    /\ st.mortgage_tax_shield <= st.mortgage_interest_annual
    /\ st.mortgage_payment_annual - st.mortgage_tax_shield >= 0
    /\ st.home2_mortgage_tax_shield <= st.home2_mortgage_interest_annual
    /\ st.home2_mortgage_payment_annual - st.home2_mortgage_tax_shield >= 0
    /\ st.purchase_mortgage_tax_shield <= st.purchase_mortgage_interest_annual
    /\ st.purchase_mortgage_payment_annual - st.purchase_mortgage_tax_shield >= 0
    /\ (st.inflated_base_cost = 0 /\ NoCarryingCosts /\ st.debt_interest_annual = 0)
       => rows[i].expenses >= 0

\* a year whose only expense is the payment on the purchased home's loan,
\* with interest and a tax rate above 0
C9_Witness ==
  /\ i >= 1
  /\ cfg.avg_tax_rate[1] > 0
  /\ st.purchase_mortgage_interest_annual > 0
  /\ st.purchase_mortgage_tax_shield > 0
  /\ st.purchase_mortgage_tax_shield < st.purchase_mortgage_interest_annual
  /\ st.inflated_base_cost = 0 /\ NoCarryingCosts /\ st.debt_interest_annual = 0
  /\ rows[i].expenses =
       st.purchase_mortgage_payment_annual - st.purchase_mortgage_tax_shield
  /\ rows[i].expenses > 0

\* an amount in mills rounded to the nearest cent, in cents
Cents(x) == (x + 5) \div 10

\* the run is the worked scenario: ages 70 to 72, an IRA of 100000 growing
\* 5%, a taxed income of 20000 at 30%, flat expenses of 30000, nothing else
WorkedScenario == cfg \in { [c EXCEPT !.end_age = 72] : c \in Example }

\* C10: in the worked scenario the row of age 70 has net income 14000, cash
\* flow -16000, a gross IRA withdrawal of 22857.14 and an IRA balance of
\* 82142.86; at age 71 the IRA first grows to 86250.00 and the same deficit
\* is withdrawn with the same gross-up; every row's net worth is its IRA
\* balance x 0.70
C10_WorkedScenario ==
  WorkedScenario =>
    /\ Len(rows) >= 1 =>
         /\ rows[1].age = 70
         /\ rows[1].income = USD(14000)
         /\ rows[1].expenses = USD(30000)
         /\ rows[1].cash_flow = -USD(16000)
         /\ Cents(rows[1].ira_growth) = 500000
         /\ Cents(rows[1].ira_withdrawal) = 2285714
         /\ Cents(rows[1].ira) = 8214286
    /\ Len(rows) >= 2 =>
         /\ rows[2].age = 71
         /\ Cents(rows[1].ira + rows[2].ira_growth) = 8625000
         /\ rows[2].cash_flow = -USD(16000)
         /\ Cents(rows[2].ira_withdrawal) = 2285714
         /\ Cents(rows[2].ira) = 8625000 - 2285714
    /\ i = 2 => Cents(mid.growth.ira) = 8625000
    /\ \A k \in 1..Len(rows) :
         /\ rows[k].net_worth = MulDiv(rows[k].ira, 70, 100)
         /\ rows[k].money_market = 0 /\ rows[k].brokerage = 0
         /\ rows[k].debt = 0

\* the worked scenario run to its end, with a withdrawal in each year
C10_Witness ==
  /\ WorkedScenario
  /\ Done
  /\ Len(rows) = 3
  /\ \A k \in 1..3 : rows[k].ira_withdrawal > 0 /\ rows[k].ira > 0

\* the run is a worked sale
WorkedSale ==
  \E c \in SaleExample : cfg = [c EXCEPT !.end_age = cfg.end_age]

\* C11: in the worked sale the sale of year 0 has price 500000, sale cost
\* 30000, taxable gain 220000, tax 55000 and net proceeds 415000; the
\* brokerage gains the whole 415000 in the sale step of year 0; and the
\* home's raw value and the liquid value of every row, from the row of
\* year 0 on, are 0
C11_WorkedSale ==
  (WorkedSale /\ i >= 1) =>
    /\ rows[1].home_sale_price = USD(500000)
    /\ st.sale_cost = IF i = 1 THEN USD(30000) ELSE 0
    /\ st.home_tax = IF i = 1 THEN USD(55000) ELSE 0
    /\ i = 1 =>
         /\ mid.liquid.sale_price = USD(500000)
         /\ Max(mid.liquid.sale_price - mid.liquid.sale_cost
                 - cfg.tax_deductions, 0) = USD(220000)
         /\ mid.liquid.liquid_home_value = USD(415000)
         /\ mid.liquid.brokerage = 0
         /\ mid.sale.brokerage = USD(415000)
         /\ rows[1].brokerage + rows[1].brokerage_withdrawal = USD(415000)
    /\ st.home_value = 0
    /\ \A k \in 1..Len(rows) : rows[k].home = 0
    /\ \A k \in 2..Len(rows) : rows[k].home_sale_price = 0

\* the worked sale two years after the sale, the proceeds partly spent
C11_Witness ==
  /\ WorkedSale
  /\ i = 3
  /\ rows[1].home_sale_price = USD(500000)
  /\ rows[1].brokerage_withdrawal > 0
  /\ rows[3].brokerage > 0
  /\ rows[3].home = 0

\* the tier that the claim's cumulative durations give for the year with
\* offset y from start_age
CumulativeTier(y) ==
  IF y < cfg.self_years THEN "Self-Sufficient"
  ELSE IF y < cfg.self_years + cfg.ind_years THEN "Independent Living"
  ELSE IF y < cfg.self_years + cfg.ind_years + cfg.assist_years
       THEN "Assisted Living"
  ELSE "Memory Care"

\* the tier that the thresholds, read as offsets from start_age, give
OffsetTier(y) ==
  IF y < cfg.self_years THEN "Self-Sufficient"
  ELSE IF y < cfg.assist_years THEN "Independent Living"
  ELSE IF y < cfg.memory_years THEN "Assisted Living"
  ELSE "Memory Care"

\* the base cost configured for a tier
TierCost(label) ==
  IF label = "Self-Sufficient" THEN cfg.self_cost
  ELSE IF label = "Independent Living" THEN cfg.ind_cost
  ELSE IF label = "Assisted Living" THEN cfg.assist_cost
  ELSE cfg.memory_cost

\* C12 as stated: the tier of every row is the one given by the cumulative
\* durations self_years, ind_years, assist_years, and the base cost of the
\* year is that of the row's tier
C12_AsStated ==
  /\ \A k \in 1..Len(rows) : rows[k].expense_type = CumulativeTier(k - 1)
  /\ i >= 1 => st.base_cost = TierCost(rows[i].expense_type)

\* C12, amended: the tier of every row is self-sufficient while age <
\* start_age + self_years, else independent living while age < start_age +
\* assist_years, else assisted living while age < start_age + memory_years,
\* else memory care (the thresholds are offsets from start_age and
\* ind_years is not read); the base cost of the year is that of the row's
\* tier
C12_TierByOffsets ==
  /\ \A k \in 1..Len(rows) : rows[k].expense_type = OffsetTier(k - 1)
  /\ i >= 1 => st.base_cost = TierCost(rows[i].expense_type)

\* a run through all four tiers, one year each, where the cumulative
\* durations would still give independent living in the third year
C12_Witness ==
  /\ i = 4
  /\ rows[1].expense_type = "Self-Sufficient"
  /\ rows[2].expense_type = "Independent Living"
  /\ rows[3].expense_type = "Assisted Living"
  /\ rows[4].expense_type = "Memory Care"
  /\ CumulativeTier(2) = "Independent Living"
  /\ st.base_cost = cfg.memory_cost
  /\ cfg.memory_cost # cfg.assist_cost

\* x compounded at rate r over n years, one year at a time
RECURSIVE Compound(_, _, _)
Compound(x, r, n) == IF n = 0 THEN x ELSE Grow(Compound(x, r, n - 1), r)

\* the inflation rate of a tier: living inflation for the self-sufficient
\* tier, care inflation for the three care tiers
TierRate(label) ==
  IF label = "Self-Sufficient" THEN cfg.living_infl ELSE cfg.care_infl

\* what the three mortgages add to the expenses of the last year
NetMortgageCost ==
  (st.mortgage_payment_annual - st.mortgage_tax_shield)
  + (st.home2_mortgage_payment_annual - st.home2_mortgage_tax_shield)
  + (st.purchase_mortgage_payment_annual - st.purchase_mortgage_tax_shield)

C14_AsStated ==
  i >= 1 =>
    /\ st.inflation_multiplier = PowRS(cfg.living_infl, LastYear)
    /\ st.inflated_base_cost
         - Compound(st.base_cost, cfg.living_infl, LastYear) <= EPS
    /\ Compound(st.base_cost, cfg.living_infl, LastYear)
         - st.inflated_base_cost <= EPS

\* a year of a care tier, after the first, charged at the care inflation
\* where it differs from the living inflation
C14_Witness ==
  /\ i >= 2
  /\ rows[i].expense_type # "Self-Sufficient"
  /\ cfg.care_infl # cfg.living_infl
  /\ st.base_cost > 0
  /\ st.inflation_multiplier = PowRS(cfg.care_infl, LastYear)
  /\ st.inflation_multiplier # PowRS(cfg.living_infl, LastYear)

\* C15: every row's net worth is money market + brokerage + IRA x (1 -
\* avg_tax_rate) + liquid value of home 1 + liquid value of home 2 +
\* (purchased home value - its mortgage balance) - debt balance, the terms
\* being the values at the end of the year; a mortgage balance enters only
\* through the liquid value of its property
C15_NetWorthIdentity ==
  /\ \A k \in 1..Len(rows) :
       rows[k].net_worth =
         rows[k].money_market + rows[k].brokerage
         + MulDiv(rows[k].ira, cfg.avg_tax_rate[2] - cfg.avg_tax_rate[1],
                  cfg.avg_tax_rate[2])
         + rows[k].home + rows[k].home2 + rows[k].purchase_home
         - rows[k].debt
  /\ i >= 1 =>
       /\ rows[i].money_market = st.money_market
       /\ rows[i].brokerage = st.brokerage
       /\ rows[i].ira = st.ira
       /\ rows[i].debt = st.debt_balance
       /\ rows[i].purchase_home =
            st.purchase_home_value - st.purchase_mortgage_balance_current
       /\ rows[i].purchase_mortgage_balance = st.purchase_mortgage_balance_current
       /\ rows[i].home =
            IF LastYear >= cfg.sell_home_years THEN 0
            ELSE NetProceeds(st.home_value, st.sale_cost, st.home_tax,
                             st.mortgage_balance_current)
       /\ rows[i].home2 =
            IF LastYear >= cfg.home2_sell_home_years THEN 0
            ELSE NetProceeds(st.home2_value, st.home2_sale_cost, st.home2_tax,
                             st.home2_mortgage_balance_current)

\* a row, after the first, with a taxed IRA and three unsold properties
\* under loans: the IRA term and every property term are non-zero
C15_Witness ==
  /\ i >= 2
  /\ cfg.avg_tax_rate[1] > 0
  /\ rows[i].ira > 0
  /\ rows[i].home > 0 /\ rows[i].mortgage_balance > 0
  /\ rows[i].home2 > 0 /\ rows[i].home2_mortgage_balance > 0
  /\ rows[i].purchase_home > 0 /\ rows[i].purchase_mortgage_balance > 0
  /\ rows[i].net_worth > 0
  /\ rows[i].net_worth
       < rows[i].ira + rows[i].home + rows[i].home2 + rows[i].purchase_home

\* the growth of one year on a balance b carried over from the year
\* before, at rate r (a money market or brokerage below 0.01 is emptied and
\* does not grow)
GrowthOn(b, r) == IF b < EPS THEN 0 ELSE Grow(b, r) - b

\* C16: in every year the growth amount of each bucket is computed on the
\* balance carried over from the year before, before anything is credited
\* or withdrawn; a surplus or a sale transfer of the year earns nothing in
\* that year; each withdrawal is at most the balance after growth (and
\* after the sale transfers, for the brokerage); and cash_flow is net income
\* minus expenses, with no growth counted as income
C16_GrowthFirst ==
  i >= 1 =>
    /\ rows[i].money_market_growth
         = GrowthOn(mid.start.money_market, cfg.cash_growth)
    /\ rows[i].brokerage_growth
         = GrowthOn(mid.start.brokerage, cfg.stock_growth)
    /\ rows[i].ira_growth = Grow(mid.start.ira, cfg.stock_growth) - mid.start.ira
    /\ mid.growth.ira = mid.start.ira + rows[i].ira_growth
    /\ mid.start.money_market >= EPS =>
         mid.growth.money_market
           = mid.start.money_market + rows[i].money_market_growth
    /\ mid.start.brokerage >= EPS =>
         mid.growth.brokerage = mid.start.brokerage + rows[i].brokerage_growth
    /\ rows[i].mm_withdrawal <= mid.growth.money_market
    /\ rows[i].brokerage_withdrawal <= mid.sale2.brokerage
    /\ rows[i].ira_withdrawal <= mid.growth.ira
    /\ rows[i].cash_flow >= 0 =>
         rows[i].money_market = mid.growth.money_market + rows[i].cash_flow
    /\ rows[i].cash_flow = rows[i].income - rows[i].expenses
    /\ rows[i].income <=
         cfg.ssn_income + cfg.pension_income + cfg.employment_income

\* a year in which the brokerage and the IRA grow, a home sale adds to the
\* brokerage, and the brokerage pays part of the deficit
C16_Witness ==
  /\ i >= 2
  /\ rows[i].brokerage_growth > 0
  /\ rows[i].ira_growth > 0
  /\ rows[i].home_sale_price > 0
  /\ mid.sale.brokerage > mid.growth.brokerage
  /\ rows[i].brokerage_withdrawal > 0
  /\ rows[i].brokerage_withdrawal > mid.start.brokerage
  /\ rows[i].brokerage > 0
  /\ rows[i].income > 0

\* C17: in every row, a brokerage withdrawal is made only if the money
\* market is 0 after its own withdrawal, and an IRA withdrawal only if the
\* money market and the brokerage are both 0 after theirs
C17_AsStated ==
  \A k \in 1..Len(rows) :
    /\ rows[k].brokerage_withdrawal > 0 => rows[k].money_market = 0
    /\ rows[k].ira_withdrawal > 0
       => rows[k].money_market = 0 /\ rows[k].brokerage = 0

\* C17, what the loop does: a withdrawal of more than 0.01 is made from
\* the brokerage only if the money market is 0 after its own withdrawal,
\* and from the IRA only if the money market and the brokerage are both 0
\* after theirs; a withdrawal made out of order is the rounding residue of
\* a deficit that the bucket before has covered
C17_OrderAboveResidue ==
  \A k \in 1..Len(rows) :
    /\ rows[k].brokerage_withdrawal > EPS => rows[k].money_market = 0
    /\ rows[k].ira_withdrawal > EPS
       => rows[k].money_market = 0 /\ rows[k].brokerage = 0

\* a year in which the brokerage covers the deficit and is left with a
\* balance, and the IRA is still drawn on for a residue
C17_Witness ==
  /\ i >= 1
  /\ rows[i].brokerage_withdrawal > USD(1000)
  /\ rows[i].brokerage > USD(1000)
  /\ rows[i].ira_withdrawal > 0
  /\ rows[i].ira_withdrawal <= EPS

\* the part of an income stream counted at age a
SsnAt(a) == IF a >= cfg.ssn_start_age THEN cfg.ssn_income ELSE 0

EmploymentAt(a) ==
  IF a <= cfg.employment_end_age THEN cfg.employment_income ELSE 0

\* C18: every row's net income is SSN, untaxed and counted iff age >=
\* ssn_start_age, plus (pension, every year, + employment, counted iff age
\* <= employment_end_age) x (1 - avg_tax_rate); the row's cash flow is that
\* income minus the row's expenses, and is the value set before the
\* withdrawals
C18_NetIncome ==
  /\ \A k \in 1..Len(rows) :
       /\ rows[k].income =
            SsnAt(rows[k].age)
            + MulDiv(cfg.pension_income + EmploymentAt(rows[k].age),
                     cfg.avg_tax_rate[2] - cfg.avg_tax_rate[1],
                     cfg.avg_tax_rate[2])
       /\ rows[k].cash_flow = rows[k].income - rows[k].expenses
  /\ i >= 1 =>
       /\ rows[i].cash_flow = mid.income.cash_flow
       /\ rows[i].expenses = mid.income.expenses
       /\ mid.income.mm_withdrawal = 0
       /\ mid.income.brokerage_withdrawal = 0
       /\ mid.income.ira_withdrawal = 0

\* a run in which employment income is counted in the first years and then
\* stops, SSN starts later, the pension is taxed throughout, and a
\* withdrawal follows the cash flow of the last year
C18_Witness ==
  /\ i >= 3
  /\ cfg.avg_tax_rate[1] > 0
  /\ cfg.pension_income > 0 /\ cfg.employment_income > 0 /\ cfg.ssn_income > 0
  /\ rows[1].age <= cfg.employment_end_age /\ rows[1].age < cfg.ssn_start_age
  /\ rows[i].age > cfg.employment_end_age /\ rows[i].age >= cfg.ssn_start_age
  /\ rows[1].income > rows[i].income
  /\ rows[i].income < cfg.ssn_income + cfg.pension_income
  /\ rows[i].cash_flow < 0
  /\ rows[i].ira_withdrawal > 0

\* every bucket is exhausted in row k, a year whose expenses exceeded its
\* income
Insolvent(k) ==
  /\ rows[k].cash_flow < 0
  /\ rows[k].money_market = 0
  /\ rows[k].brokerage = 0
  /\ rows[k].ira = 0

\* C19: a run always reaches its last row: whatever the configuration
\* (mortgage term 0, zero mortgage or debt rate, zero balances, zero
\* property values, years with every bucket exhausted) no division by
\* zero stops the loop before the last age, every completed iteration has
\* appended one row, and a year that follows an insolvent year and again
\* spends more than it earns, without a sale, is appended with the three
\* buckets at 0
C19_ReachesLastRow ==
  /\ <>Done
  /\ [](Len(rows) = i)
  /\ [](i >= 2 /\ Insolvent(i - 1) /\ rows[i].cash_flow < 0
          /\ rows[i].home_sale_price = 0 /\ rows[i].home2_sale_price = 0
        => Insolvent(i))

\* a finished run of three rows or more whose last two years were
\* insolvent and borrowed, for a configuration with a mortgage of term 0
\* and a zero-rate mortgage whose payment was computed by dividing by its
\* number of months; the last year's cascade found no bucket to divide by
C19_Witness ==
  /\ Done
  /\ i >= 3
  /\ Insolvent(i - 1)
  /\ Insolvent(i)
  /\ rows[i].debt > rows[i - 1].debt
  /\ cfg.mortgage_term = 0 /\ cfg.mortgage_balance > 0
  /\ cfg.home2_mortgage_rate = Zero
  /\ InitDivisors(cfg) = {cfg.home2_mortgage_term * 12}
  /\ CascadeDivisors(cfg, mid.income) = {}

\* property tax, insurance and HOA that the last year added to its expenses
CarryingCost ==
  (IF LastYear < cfg.sell_home_years
   THEN st.home_property_tax_current + st.home_insurance_current
        + st.home_hoa_annual
   ELSE 0)
  + (IF LastYear < cfg.home2_sell_home_years
     THEN st.home2_property_tax_current + st.home2_insurance_current
          + st.home2_hoa_annual
     ELSE 0)
  + st.purchase_property_tax_current + st.purchase_insurance_current
  + st.purchase_hoa_annual

\* C20: a year that starts with a debt balance > 0 adds balance x
\* debt_interest_rate to the balance before anything else happens and the
\* same amount to its expenses; a year that starts without debt adds no
\* interest to either; the balance at the end of the year is the balance
\* at its start plus the interest plus what the year borrowed
C20_DebtInterest ==
  i >= 1 =>
    /\ mid.start.debt_balance > 0 =>
          rows[i].debt_interest = Times(mid.start.debt_balance, cfg.debt_interest_rate)
    /\ mid.start.debt_balance = 0 => rows[i].debt_interest = 0
    /\ mid.growth.debt_balance = mid.start.debt_balance + rows[i].debt_interest
    /\ mid.income.debt_balance = mid.growth.debt_balance
    /\ rows[i].expenses = st.inflated_base_cost + NetMortgageCost + CarryingCost
                          + rows[i].debt_interest
    /\ rows[i].debt = mid.start.debt_balance + rows[i].debt_interest
                      + st.debt_taken_this_year

\* a first year without debt that borrowed, then a year that started with
\* that debt, was charged interest on it and borrowed again, in a
\* configuration with living, mortgage and carrying costs
C20_Witness ==
  /\ i >= 2
  /\ rows[1].debt_interest = 0
  /\ rows[1].debt > 0
  /\ mid.start.debt_balance = rows[i - 1].debt
  /\ mid.start.debt_balance > 0
  /\ rows[i].debt_interest > 0
  /\ rows[i].debt > rows[i - 1].debt + rows[i].debt_interest
  /\ st.inflated_base_cost > 0 /\ NetMortgageCost > 0 /\ CarryingCost > 0
  /\ rows[i].expenses > st.inflated_base_cost + NetMortgageCost + CarryingCost

\* the three mortgages at the end of the last year, each as <<initial
\* balance, initial term in years, balance, remaining months, sold>>
Mortgages ==
  { <<cfg.mortgage_balance, cfg.mortgage_term, st.mortgage_balance_current,
      st.mortgage_remaining_months, LastYear >= cfg.sell_home_years>>,
    <<cfg.home2_mortgage_balance, cfg.home2_mortgage_term,
      st.home2_mortgage_balance_current, st.home2_mortgage_remaining_months,
      LastYear >= cfg.home2_sell_home_years>>,
    <<loan_amount(cfg), cfg.purchase_term, st.purchase_mortgage_balance_current,
      st.purchase_mortgage_remaining_months, FALSE>> }

\* C21 as stated: at the end of every year and for each of the three
\* mortgages the outstanding balance is 0 if and only if the remaining
\* months are 0, whatever the initial balance and term
C21_AsStated ==
  i >= 1 => \A m \in Mortgages : (m[3] = 0) <=> (m[4] = 0)

\* C21: at the end of every year, a mortgage that started with a positive
\* balance and a term of one year or more has balance 0 if and only if its
\* remaining months are 0; one that started with a positive balance and
\* term 0 keeps that balance with 0 months until its home is sold; one
\* that started without a balance keeps the months of its initial term
C21_PaidOffTogether ==
  i >= 1 =>
    \A m \in Mortgages :
      /\ m[1] > 0 /\ m[2] > 0 => ((m[3] = 0) <=> (m[4] = 0))
      /\ m[1] > 0 /\ m[2] = 0 => m[4] = 0 /\ m[3] = (IF m[5] THEN 0 ELSE m[1])
      /\ m[1] = 0 => m[3] = 0 /\ m[4] = m[2] * 12

\* the year in which a mortgage of home 1 in repayment reaches months 0
\* and balance 0 together, the home unsold
C21_Witness ==
  /\ i >= 2
  /\ cfg.mortgage_balance > 0 /\ cfg.mortgage_term > 0
  /\ LastYear < cfg.sell_home_years
  /\ mid.start.mortgage_balance_current > 0
  /\ mid.start.mortgage_remaining_months > 0
  /\ st.mortgage_balance_current = 0
  /\ st.mortgage_remaining_months = 0
  /\ st.mortgage_payment_annual > 0

\* the balances of the three mortgages in row k, or the initial balances
\* for k = 0
MortgageBalances(k) ==
  IF k = 0
  THEN <<cfg.mortgage_balance, cfg.home2_mortgage_balance, loan_amount(cfg)>>
  ELSE <<rows[k].mortgage_balance, rows[k].home2_mortgage_balance,
         rows[k].purchase_mortgage_balance>>

\* the three mortgages as <<index in MortgageBalances, initial term in
\* years, sale offset of the property, payment charged in the last year>>;
\* the purchased home is never sold
Loans ==
  { <<1, cfg.mortgage_term, cfg.sell_home_years, st.mortgage_payment_annual>>,
    <<2, cfg.home2_mortgage_term, cfg.home2_sell_home_years,
      st.home2_mortgage_payment_annual>>,
    <<3, cfg.purchase_term, cfg.purchase_term + MaxSpan + 1,
      st.purchase_mortgage_payment_annual>> }

\* C22: a mortgage with a positive balance and a term of T >= 1 years has
\* in every row a balance that is >= 0 and at most the balance of the row
\* before; if its property is not sold before year index T the balance is
\* 0 in the row of year index T - 1 and in every later row; and the last
\* year charged no payment if its index is >= T or >= the sale offset
C22_Amortization ==
  \A l \in Loans :
    MortgageBalances(0)[l[1]] > 0 /\ l[2] >= 1 =>
      /\ \A k \in 1..Len(rows) :
            /\ MortgageBalances(k)[l[1]] >= 0
            /\ MortgageBalances(k)[l[1]] <= MortgageBalances(k - 1)[l[1]]
            /\ l[3] >= l[2] /\ k >= l[2] => MortgageBalances(k)[l[1]] = 0
      /\ i >= 1 /\ (LastYear >= l[2] \/ LastYear >= l[3]) => l[4] = 0

\* a two-year mortgage on home 1, not sold in the first four years: a
\* smaller positive balance after the first year, 0 after the second, and
\* no payment in the fourth year
C22_Witness ==
  /\ i = 4
  /\ cfg.mortgage_balance > 0 /\ cfg.mortgage_term = 2
  /\ cfg.mortgage_rate[1] > 0
  /\ cfg.sell_home_years > 3
  /\ rows[1].mortgage_balance > 0
  /\ rows[1].mortgage_balance < cfg.mortgage_balance
  /\ rows[2].mortgage_balance = 0
  /\ rows[4].mortgage_balance = 0
  /\ st.mortgage_payment_annual = 0
  /\ rows[4].home > 0

\* C23: in a year with cash_flow >= 0 the surplus is added to the money
\* market balance and to its cost basis; the year withdraws from no bucket
\* and takes no debt; the brokerage (all its fields) and the IRA end the
\* year as the growth and sale steps left them, and so does the
\* tax-deferred component of the money market; the debt balance ends as
\* the interest step left it
C23_SurplusFrame ==
  i >= 1 /\ rows[i].cash_flow >= 0 =>
    /\ st.money_market = mid.growth.money_market + rows[i].cash_flow
    /\ st.money_market_cost_basis
         = mid.growth.money_market_cost_basis + rows[i].cash_flow
    /\ st.money_market_tax_deferred = mid.growth.money_market_tax_deferred
    /\ rows[i].mm_withdrawal = 0 /\ rows[i].mm_withdrawal_tax = 0
    /\ rows[i].brokerage_withdrawal = 0 /\ rows[i].brokerage_withdrawal_tax = 0
    /\ rows[i].ira_withdrawal = 0 /\ rows[i].ira_withdrawal_tax = 0
    /\ st.brokerage = mid.sale2.brokerage
    /\ st.brokerage_cost_basis = mid.sale2.brokerage_cost_basis
    /\ st.brokerage_tax_deferred = mid.sale2.brokerage_tax_deferred
    /\ mid.sale2.brokerage
         = mid.growth.brokerage
           + (IF mid.sale.home_sale_this_year THEN mid.liquid.liquid_home_value ELSE 0)
           + (IF mid.sale2.home2_sale_this_year
              THEN mid.liquid2.home2_liquid_value ELSE 0)
    /\ st.ira = mid.growth.ira
    /\ st.debt_taken_this_year = 0
    /\ st.debt_balance = mid.start.debt_balance + rows[i].debt_interest

\* a surplus year in which a home is sold: the money market holds
\* untaxed growth and is credited with the surplus, the brokerage held the
\* proceeds of an earlier sale and receives those of this one, and the IRA
\* holds a balance; none of them is drawn on
C23_Witness ==
  /\ i >= 2
  /\ rows[i].cash_flow > 0
  /\ mid.growth.money_market > 0
  /\ st.money_market_tax_deferred > 0
  /\ st.money_market > mid.growth.money_market
  /\ mid.growth.brokerage > 0
  /\ mid.growth.brokerage_growth > 0
  /\ rows[i].home_sale_price > 0
  /\ st.brokerage > mid.growth.brokerage
  /\ st.ira > 0 /\ mid.growth.ira_growth > 0

\* the two buckets with tracked untaxed growth, each as <<balance, cost
\* basis, tax-deferred component>> at the end of the last year, <<balance,
\* cost basis, tax-deferred component, previous value>> after the year's
\* withdrawals, the balance before them and the amount withdrawn
TrackedBuckets ==
  { << <<st.money_market, st.money_market_cost_basis, st.money_market_tax_deferred>>,
       <<mid.cascade.money_market, mid.cascade.money_market_cost_basis,
         mid.cascade.money_market_tax_deferred, mid.cascade.money_market_prev_value>>,
       mid.income.money_market, st.mm_withdrawal >>,
    << <<st.brokerage, st.brokerage_cost_basis, st.brokerage_tax_deferred>>,
       <<mid.cascade.brokerage, mid.cascade.brokerage_cost_basis,
         mid.cascade.brokerage_tax_deferred, mid.cascade.brokerage_prev_value>>,
       mid.income.brokerage, st.brokerage_withdrawal >> }

\* C24: at the end of every year a money market or brokerage balance of
\* exactly 0 comes with a cost basis and a tax-deferred component of
\* exactly 0; and a withdrawal that leaves less than 0.01 leaves the
\* balance, the cost basis, the tax-deferred component and the previous
\* value at exactly 0
C24_DepletedZeroed ==
  i >= 1 =>
    \A b \in TrackedBuckets :
      /\ b[1][1] = 0 => b[1][2] = 0 /\ b[1][3] = 0
      /\ b[4] > 0 /\ b[3] - b[4] < EPS => b[2] = <<0, 0, 0, 0>>

\* a withdrawal from the money market that takes less than the balance
\* and leaves less than a cent, and the bucket at exactly 0 afterwards
C24_Witness ==
  /\ i >= 1
  /\ st.mm_withdrawal > 0
  /\ st.mm_withdrawal < mid.income.money_market
  /\ mid.income.money_market - st.mm_withdrawal < EPS
  /\ mid.income.money_market_cost_basis > 0
  /\ st.money_market = 0
  /\ st.money_market_cost_basis = 0
  /\ st.debt_balance = 0

\* the property fields of a state of the script: raw values, liquid values
\* and mortgage balances of the three properties
Properties(s) ==
  <<s.home_value, s.liquid_home_value, s.mortgage_balance_current,
    s.home2_value, s.home2_liquid_value, s.home2_mortgage_balance_current,
    s.purchase_home_value, s.purchase_mortgage_balance_current>>

\* the cascade of the last year, a deficit year, left every property as it
\* found it, drew on each bucket at most its balance, and the brokerage
\* it drew on held the balance after growth plus the proceeds of the homes
\* sold in this very year
CascadeLeavesHomes ==
  /\ Properties(mid.cascade) = Properties(mid.income)
  /\ st.home_value = mid.income.home_value
  /\ st.home2_value = mid.income.home2_value
  /\ rows[i].home = mid.income.liquid_home_value
  /\ rows[i].home2 = mid.income.home2_liquid_value
  /\ rows[i].mm_withdrawal <= mid.growth.money_market
  /\ rows[i].brokerage_withdrawal <= mid.income.brokerage
  /\ rows[i].ira_withdrawal <= mid.growth.ira
  /\ mid.income.brokerage
       = mid.growth.brokerage
         + (IF LastYear = cfg.sell_home_years THEN mid.liquid.liquid_home_value ELSE 0)
         + (IF LastYear = cfg.home2_sell_home_years
            THEN mid.liquid2.home2_liquid_value ELSE 0)

\* a home with a positive value is still unsold at the end of the last year
UnsoldHome ==
  \/ LastYear < cfg.sell_home_years /\ st.home_value > 0
  \/ LastYear < cfg.home2_sell_home_years /\ st.home2_value > 0

\* the deficit left by the three buckets in the last year was borrowed
ShortfallBorrowed ==
  /\ NewDebt - RemainingDeficit(i) <= EPS
  /\ RemainingDeficit(i) - NewDebt <= EPS

\* C25 as stated: in a deficit year the cascade changes no property and
\* draws only on the three buckets, the brokerage holding home equity only
\* as the proceeds of a sale; and while a home is unsold, a shortfall that
\* the three empty buckets leave goes to debt
C25_AsStated ==
  i >= 1 /\ st.cash_flow < 0 =>
    /\ CascadeLeavesHomes
    /\ UnsoldHome /\ Insolvent(i) /\ RemainingDeficit(i) > EPS => ShortfallBorrowed

\* C25: in a deficit year the cascade changes no property and draws only
\* on the three buckets, the brokerage holding home equity only as the
\* proceeds of a sale; and while a home is unsold, a shortfall that the
\* three empty buckets leave goes to debt, unless the other home has value
\* 0 and a sale offset still ahead, when it is dropped
C25_CascadeLeavesHomes ==
  i >= 1 /\ st.cash_flow < 0 =>
    /\ CascadeLeavesHomes
    /\ UnsoldHome /\ Insolvent(i) /\ RemainingDeficit(i) > EPS =>
         \/ ShortfallBorrowed
         \/ /\ NewDebt = 0
            /\ \/ LastYear < cfg.sell_home_years /\ st.home_value = 0
               \/ LastYear < cfg.home2_sell_home_years /\ st.home2_value = 0

\* a deficit year before the sale of home 1, whose equity exceeds the
\* shortfall: the buckets are emptied, the rest is borrowed and the home
\* keeps its value
C25_Witness ==
  /\ i >= 2
  /\ st.cash_flow < 0
  /\ LastYear < cfg.sell_home_years
  /\ rows[i].home > RemainingDeficit(i)
  /\ rows[i].mm_withdrawal + rows[i].ira_withdrawal > 0
  /\ Insolvent(i)
  /\ RemainingDeficit(i) > USD(1000)
  /\ ShortfallBorrowed
  /\ st.home_value > mid.start.home_value

\* import_data has returned
Imported == imp.pc = "done"

RowVar(k) == map_parameter_to_variable(imp.data[k].name)

\* the session state and the result when exactly the rows K are stored: a
\* variable holds the value of its last stored row, else what it held
\* before; the count is the number of stored rows; no stored row gives
\* (False, message, 0)
ImportOutcome(K) ==
  /\ imp.session =
       [v \in ImportVars |->
          IF \E k \in K : RowVar(k) = v
          THEN imp.data[CHOOSE k \in K :
                          /\ RowVar(k) = v
                          /\ \A o \in K : RowVar(o) = v => o <= k].value
          ELSE SessionBefore[v]]
  /\ imp.result.count = Cardinality(K)
  /\ imp.result.success = (K # {})
  /\ imp.result.message # "pending"

\* C26 as stated: a row is skipped when its name maps to no variable or its
\* value is non-numeric or outside the range allowed for the variable; every
\* other row is stored; the count is the number of stored values and the
\* result is (False, message, 0) when there is none.
C26_AsStated ==
  Imported =>
    ImportOutcome({ k \in DOMAIN imp.data :
                      /\ RowVar(k) # "none"
                      /\ WidgetRange(RowVar(k), imp.data[k].value) })

\* C26 as the code behaves: a row is skipped when its name maps to no
\* variable, its value does not convert to a number, or it fails one of the
\* range checks import_data makes (ages, sale offset, mortgage and purchase
\* terms, percentages within 0..100); every other row is stored, out of the
\* widget's range or not; the count and the result are as stated.
C26_ImportChecked ==
  Imported =>
    ImportOutcome({ k \in DOMAIN imp.data :
                      /\ RowVar(k) # "none"
                      /\ imp.data[k].value.kind # "str"
                      /\ RangeChecked(RowVar(k), imp.data[k].value) })

\* an import that skipped an age out of range, leaving the earlier value,
\* and stored a term the widget does not accept
C26_Witness ==
  /\ Imported
  /\ \E a, b \in DOMAIN imp.data :
       /\ imp.data[a] = [name |-> <<"age">>, value |-> Num(99)]
       /\ imp.data[b] = [name |-> <<"second", "home", "remaining", "term">>,
                         value |-> Num(99)]
  /\ imp.session["start_age"] = Num(80)
  /\ imp.session["home2_mortgage_term"] = Num(99)
  /\ imp.result = [success |-> TRUE, message |-> "Successfully imported",
                   count |-> 1]

\* cost basis + tax-deferred component against the balance, to the cent
BasisTracksBalance(b) ==
  /\ b[2] + b[3] - b[1] <= EPS
  /\ b[1] - b[2] - b[3] <= EPS

MoneyMarketTracked ==
  <<st.money_market, st.money_market_cost_basis, st.money_market_tax_deferred>>

BrokerageTracked ==
  <<st.brokerage, st.brokerage_cost_basis, st.brokerage_tax_deferred>>

\* home 1 was sold in an earlier year than this one, after home 2
Home1SoldAfterHome2 ==
  /\ cfg.home2_sell_home_years < cfg.sell_home_years
  /\ cfg.sell_home_years < i

\* C27 as stated: at the end of every year the cost basis and the
\* tax-deferred component of the money market, and of the brokerage, add up
\* to the balance of the bucket, whatever the sale offsets of the two
\* homes, home 2 sold before home 1 included.
C27_AsStated ==
  i >= 1 => BasisTracksBalance(MoneyMarketTracked) /\ BasisTracksBalance(BrokerageTracked)

\* C27 as the code behaves: the identity holds for the money market in
\* every year, and for the brokerage unless home 1 was sold after home 2;
\* from that sale on the cost basis and the tax-deferred component add up
\* to no more than the balance.
C27_BasisTracksBalance ==
  i >= 1 =>
    /\ BasisTracksBalance(MoneyMarketTracked)
    /\ ~Home1SoldAfterHome2 => BasisTracksBalance(BrokerageTracked)
    /\ st.brokerage_cost_basis + st.brokerage_tax_deferred <= st.brokerage + EPS

\* the year after home 2 was sold into the brokerage, home 1 is sold too:
\* the proceeds of home 2 remain in the balance and are in neither the cost
\* basis nor the tax-deferred component
C27_Witness ==
  /\ Home1SoldAfterHome2
  /\ i = cfg.sell_home_years + 1
  /\ mid.liquid.brokerage > USD(1000)
  /\ mid.liquid.liquid_home_value > USD(1000)
  /\ mid.sale.brokerage = mid.liquid.brokerage + mid.liquid.liquid_home_value
  /\ mid.sale.brokerage_cost_basis = mid.liquid.liquid_home_value
  /\ mid.sale.brokerage_tax_deferred = 0
  /\ st.brokerage > st.brokerage_cost_basis + st.brokerage_tax_deferred + USD(1000)

\* C28: the debt balance never decreases from one row to the next: no step
\* repays debt, so a debt that is positive stays positive in every later
\* row and grows each year by at least balance x debt_interest_rate, in
\* years with a cash-flow surplus and in years with refilled buckets too
C28_DebtNeverRepaid ==
  \A k \in 1..Len(rows) :
    /\ rows[k].debt >= PrevDebt(k)
    /\ rows[k].debt >= PrevDebt(k) + Times(PrevDebt(k), cfg.debt_interest_rate)
    /\ \A j \in 1..k : rows[j].debt > 0 => rows[k].debt >= rows[j].debt /\ rows[k].debt > 0

\* a year that started in debt and ended with a surplus put into the money
\* market: the debt is still there, larger by the year's interest
C28_Witness ==
  /\ i >= 2
  /\ PrevDebt(i) > 0
  /\ rows[i].cash_flow > 0
  /\ rows[i].money_market >= rows[i].cash_flow
  /\ rows[i].debt_interest > 0
  /\ rows[i].debt = PrevDebt(i) + rows[i].debt_interest

\* the last year started in debt with the money market, the brokerage and
\* the IRA empty, and borrowed the whole of its shortfall
BorrowedWholeShortfall ==
  /\ i >= 1
  /\ mid.start.debt_balance > 0
  /\ mid.income.money_market = 0
  /\ mid.income.brokerage = 0
  /\ mid.income.ira = 0
  /\ st.cash_flow < 0
  /\ st.debt_taken_this_year = -st.cash_flow

\* expenses excluding debt interest, less the net income of the year
ShortfallBeforeInterest ==
  (st.expenses - st.debt_interest_annual) - st.income_annual

\* C29 as stated: a year's debt interest increases the debt balance exactly
\* once: starting from debt D > 0 with the three buckets empty and the whole
\* shortfall borrowed, the year-end debt is D x (1 + debt_interest_rate) +
\* (expenses excluding debt interest - net income).
C29_AsStated ==
  BorrowedWholeShortfall =>
    st.debt_balance = mid.start.debt_balance
                      + Times(mid.start.debt_balance, cfg.debt_interest_rate)
                      + ShortfallBeforeInterest

\* C29 as the code behaves: the interest enters the balance at the start of
\* the year and again within the borrowed shortfall, the expenses including
\* it: the year-end debt is D x (1 + 2 x debt_interest_rate) + (expenses
\* excluding debt interest - net income).
C29_InterestCountedTwice ==
  BorrowedWholeShortfall =>
    st.debt_balance = mid.start.debt_balance
                      + 2 * Times(mid.start.debt_balance, cfg.debt_interest_rate)
                      + ShortfallBeforeInterest

\* such a year, with interest charged
C29_Witness ==
  /\ BorrowedWholeShortfall
  /\ st.debt_interest_annual > 0
  /\ ShortfallBeforeInterest > 0
  /\ st.debt_balance > mid.start.debt_balance + st.debt_interest_annual
                       + ShortfallBeforeInterest

\* the age of row k lies in [start_age + self_years, start_age + assist_years)
IndependentAge(k) ==
  /\ cfg.start_age + cfg.self_years <= rows[k].age
  /\ rows[k].age < cfg.start_age + cfg.assist_years

======================================================================
